---- MODULE Spec2Model ----
(***************************************************************************)
(* Model of the PhpResolver install pipeline (internal/pkgmgr).            *)
(*                                                                         *)
(* Spec        : DownloadPackages, its task goroutines and downloadPackage *)
(*               (downloader.go).                                          *)
(* SpecLive    : Spec for a limit of at least 1, with the goroutines       *)
(*               scheduled fairly.                                         *)
(* SpecFair    : Spec for every limit, with the goroutines scheduled       *)
(*               fairly.                                                   *)
(* SpecExtract : ExtractPackages / extractPackage / extractZipFile /       *)
(*               computeCommonPrefix (extractor.go, temp-directory         *)
(*               version).                                                 *)
(* SpecResolve : ResolvePackagesWithRepos / resolvePackage /               *)
(*               queryComposerRepository (load.go).                        *)
(* SpecConfig  : config.Load / ensureConfigFile / validate (load.go).      *)
(* SpecInstall : RunInstall at the granularity of its calls, run twice     *)
(*               (install.go).                                             *)
(* SpecRace    : two processes each running downloadPackage for the same   *)
(*               cache key (downloader.go).                                *)
(*                                                                         *)
(* Every filesystem or network call whose error the code branches on is a  *)
(* nondeterministic choice between success and failure.  Calls whose error *)
(* the code discards (os.Remove, the deferred os.RemoveAll) succeed.       *)
(* A crash of the process is the behaviour that stops: every reachable     *)
(* state is a state a crash can leave on disk.                             *)
(***************************************************************************)
EXTENDS Integers, Sequences, FiniteSets, TLC

\* ------------------------------------------------------------------ bounds
MaxPkgs == 2      \* artifacts in one batch
MaxLimit == 1     \* largest cfg.Pkgmgr.MaxConcurrentDownloads explored
MaxEntries == 2   \* entries in one archive
MaxReqs == 2      \* requirements in one manifest
MaxRepos == 2     \* entries of composer.Repositories
MaxVersions == 2  \* versions in one metadata document
MaxLoads == 2     \* calls of config.Load (runs of the program)

Packages == 1..MaxPkgs

\* ------------------------------------------------------------- data model
Hashes == {"h1", "h2"}

\* pkg.Dist digests (types.go Dist.Checksum / Dist.Shasum); "" = not supplied
Dists ==
    { [Checksum |-> "",   Shasum |-> ""],
      [Checksum |-> "",   Shasum |-> "h1"],
      [Checksum |-> "h1", Shasum |-> "h2"] }

\* a file on disk: is the whole response body in it, was it fsynced, its sha1
File(full, synced, hash) ==
    [exists |-> TRUE, full |-> full, synced |-> synced, hash |-> hash]
Files == [exists : {TRUE}, full : BOOLEAN, synced : BOOLEAN, hash : Hashes]
\* no file at the path
Absent == [exists |-> FALSE, full |-> FALSE, synced |-> FALSE, hash |-> ""]

NoErr == [name |-> 0, cause |-> "nil"]
Err(p, cause) == [name |-> p, cause |-> cause]

\* a directory of the target tree: the files in it (path relative to the
\* directory, full = completely written)
NoDir == [exists |-> FALSE, files |-> {}]
EmptyDir == [exists |-> TRUE, files |-> {}]
OldDir == [exists |-> TRUE, files |-> {[path |-> <<"old">>, full |-> TRUE]}]
StaleDir == [exists |-> TRUE, files |-> {[path |-> <<"stale">>, full |-> TRUE]}]

\* entry names an archive may carry
EntryNames ==
    { <<>>,                                          \* ""
      <<"p", "/">>,                                  \* "p/"
      <<"p", "/", "a">>,                             \* "p/a"
      <<"p", "/", "b", "/", "a">>,                   \* "p/b/a"
      <<"a">>,                                       \* "a"
      <<"..", "/", "a">>,                            \* "../a"
      <<"p", "/", "..", "/", "..", "/", "a">> }      \* "p/../../a"

\* zipReader.File as the list of entry names, every archive of up to
\* MaxEntries entries
Archives == UNION {[1..n -> EntryNames] : n \in 0..MaxEntries}

\* the archives used in batches of more than one artifact
BatchArchives ==
    { << <<"p", "/">>, <<"p", "/", "a">> >>,
      << <<"..", "/", "a">> >> }

\* tempDir of the running extractPackage and the final vendorPath
TempDirPath == <<"vendor", "/", "acme", "/", "w.tmp">>

\* ------------------------------------------------- strings and paths
\* A string is a sequence of symbols: "/" is the separator, every other
\* symbol is an indivisible piece of a file name (".." is the parent link).
Sep == "/"
DotDot == <<"..">>

Min(a, b) == IF a < b THEN a ELSE b

\* strings.HasPrefix
HasPrefix(s, pre) ==
    /\ Len(pre) <= Len(s)
    /\ SubSeq(s, 1, Len(pre)) = pre

\* strings.TrimPrefix
TrimPrefix(s, pre) ==
    IF HasPrefix(s, pre) THEN SubSeq(s, Len(pre) + 1, Len(s)) ELSE s

\* strings.TrimSuffix(s, "/")
TrimSuffix(s) ==
    IF Len(s) > 0 /\ s[Len(s)] = Sep THEN SubSeq(s, 1, Len(s) - 1) ELSE s

\* strings.Split(s, "/"): always at least one (possibly empty) component
RECURSIVE Split(_)
Split(s) ==
    LET seps == {i \in 1..Len(s) : s[i] = Sep}
    IN  IF seps = {} THEN <<s>>
        ELSE LET i == CHOOSE j \in seps : \A k \in seps : j <= k
             IN  <<SubSeq(s, 1, i - 1)>> \o Split(SubSeq(s, i + 1, Len(s)))

\* strings.Join(components, "/")
RECURSIVE JoinSep(_)
JoinSep(cs) ==
    IF Len(cs) = 0 THEN <<>>
    ELSE IF Len(cs) = 1 THEN cs[1]
    ELSE cs[1] \o <<Sep>> \o JoinSep(Tail(cs))

\* filepath.Clean of a relative path, as a list of components: empty
\* components are dropped, an inner ".." removes the component before it,
\* a ".." with nothing before it stays
RECURSIVE CleanComps(_, _)
CleanComps(cs, stack) ==
    IF Len(cs) = 0 THEN stack
    ELSE LET c == Head(cs)
         IN  IF c = <<>> THEN CleanComps(Tail(cs), stack)
             ELSE IF c = DotDot /\ Len(stack) > 0 /\ stack[Len(stack)] # DotDot
                  THEN CleanComps(Tail(cs), SubSeq(stack, 1, Len(stack) - 1))
             ELSE CleanComps(Tail(cs), Append(stack, c))

\* filepath.Clean ("." for the empty result)
Clean(s) ==
    LET cs == CleanComps(Split(s), <<>>)
    IN  IF Len(cs) = 0 THEN <<".">> ELSE JoinSep(cs)

\* filepath.Join(dir, rel)
JoinPath(dir, rel) ==
    IF rel = <<>> THEN Clean(dir) ELSE Clean(dir \o <<Sep>> \o rel)

\* ------------------------------------------------------- computeCommonPrefix
\* index of the first entry with a non-empty name, 0 if there is none
FirstNamed(files) ==
    LET named == {i \in 1..Len(files) : files[i] # <<>>}
    IN  IF named = {} THEN 0
        ELSE CHOOSE i \in named : \A k \in named : i <= k

\* the truncation loop over all entries, from entry k on
RECURSIVE TruncateCommon(_, _, _)
TruncateCommon(files, k, commonComponents) ==
    IF k > Len(files) THEN commonComponents
    ELSE IF files[k] = <<>> THEN TruncateCommon(files, k + 1, commonComponents)
    ELSE LET components == Split(TrimSuffix(files[k]))
             minLen == Min(Len(commonComponents), Len(components))
             diff == {i \in 1..minLen : commonComponents[i] # components[i]}
             cut == IF diff = {} THEN commonComponents
                    ELSE LET i == CHOOSE j \in diff : \A m \in diff : j <= m
                         IN  SubSeq(commonComponents, 1, i - 1)
         IN  IF Len(cut) = 0 THEN cut
             ELSE TruncateCommon(files, k + 1, cut)

computeCommonPrefix(files) ==
    IF Len(files) = 0 \/ FirstNamed(files) = 0 THEN <<>>
    ELSE LET firstComponents == Split(TrimSuffix(files[FirstNamed(files)]))
             commonComponents == TruncateCommon(files, 1, firstComponents)
         IN  IF Len(commonComponents) > 0
               THEN JoinSep(commonComponents) \o <<Sep>>
               ELSE <<>>

\* ------------------------------------------------------------ extractZipFile
\* relativePath: the entry name with stripPrefix removed when it has it
relativePath(name, stripPrefix) ==
    IF stripPrefix # <<>> /\ HasPrefix(name, stripPrefix)
      THEN TrimPrefix(name, stripPrefix) ELSE name

\* InsideDest without the zip-slip test
InsideDestUnchecked(destPath, destDir) == TRUE

\* the zip-slip test: destPath has the prefix Clean(destDir) + "/"
InsideDest(destPath, destDir) ==
    HasPrefix(destPath, Clean(destDir) \o <<Sep>>)

\* what extractZipFile decides for one entry before it touches the disk
\*   "skip"    : relativePath is empty, nothing is done
\*   "illegal" : rejected by the zip-slip test
\*   "write"   : destPath is created
extractZipFile(name, destDir, stripPrefix) ==
    LET rel == relativePath(name, stripPrefix)
        destPath == JoinPath(destDir, rel)
    IN  IF rel = <<>> THEN [do |-> "skip", destPath |-> <<>>]
        ELSE IF ~InsideDest(destPath, destDir)
          THEN [do |-> "illegal", destPath |-> destPath]
        ELSE [do |-> "write", destPath |-> destPath]

VARIABLES
    \* ---- downloader
    limit,            \* cfg.Pkgmgr.MaxConcurrentDownloads
    dist,             \* pkg.Dist of every artifact of the batch
    fetched,          \* sha1 of the body a task renamed into the cache, or ""
    cache,            \* file at cacheRoot/name/version/name.zip, or Absent
    cache0,           \* the cache as it was when DownloadPackages was called
    tmp,              \* the task's temp file next to the cache path, or Absent
    tpc,              \* position of every task goroutine
    terr,             \* what downloadPackage returned to the task
    tfrom,            \* the step the task's downloadPackage call returned from
    sem,              \* number of tokens in the sem channel
    wg,               \* sync.WaitGroup counter
    errCh,            \* buffered error channel (FIFO)
    errChClosed,      \* close(errCh) has run
    ctxDone,          \* the derived context is cancelled
    parentCancelled,  \* the caller cancelled its context during the call
    mainPC,           \* position of DownloadPackages itself
    result,           \* value DownloadPackages returned
    \* ---- extractor
    batch,            \* len(packages) passed to ExtractPackages
    zip,              \* entry names of every cached archive
    vendor,           \* directory at targetRoot/name
    backup,           \* directory at targetRoot/name.backup
    vendor0,          \* targetRoot/name as it was before ExtractPackages
    tempDir,          \* temporary sibling directory of the running call
    outside,          \* paths created outside tempDir by extractZipFile
    rootDir,          \* computeCommonPrefix of the open archive
    idx,              \* next entry of the open archive
    ei,               \* index of the ExtractPackages loop
    epc,              \* position inside ExtractPackages / extractPackage
    lastErr,          \* what extractPackage returned for every artifact
    failedPackages,   \* ExtractPackages' failedPackages
    exResult,         \* value ExtractPackages returned
    \* ---- resolver
    require,          \* composer.Require: the names required by the manifest
    repositories,     \* composer.Repositories, in listed order
    todo,             \* requirements the range loop has not reached yet
    cur,              \* name resolvePackage was last called with
    ri,               \* index of the repository loop inside resolvePackage
    tried,            \* base URLs queried for cur, in order, with the outcome
    lastQuery,        \* response and result of the last queryComposerRepository
    rerr,             \* error resolvePackage returned for cur
    packages,         \* the packages slice of ResolvePackagesWithRepos
    errors,           \* its errors slice (the requirement of every entry)
    rpc,              \* position inside ResolvePackagesWithRepos
    rsErr,            \* error ResolvePackagesWithRepos returned
    caller,           \* what RunInstall / RunUpdate did with that return
    \* ---- config.Load
    cfgFile,          \* ~/.phpResolver/config.yml
    cfg,              \* the Config being loaded / returned
    cpc,              \* position inside Load / ensureConfigFile
    loadErr,          \* error Load returned
    loads,            \* number of Load calls so far
    \* ---- RunInstall, run twice
    run,              \* which run of RunInstall this is
    ipc,              \* position inside RunInstall
    registry,         \* the metadata response packagist.org gives for a name
    store,            \* (name, version) keys with a file at their cache path
    tree,             \* version installed at vendor/name, 0 for none
    tree1,            \* the tree the first run left
    ok1,              \* the first run returned nil
    lookups,          \* metadata requests sent by this run
    fetches,          \* download requests sent by this run
    downloadErr,      \* what DownloadPackages returned to this run
    \* ---- two processes downloading the same (name, version)
    procDist,         \* pkg.Dist of the artifact both processes resolved
    procCache,        \* the file at the cache path both processes use
    procTmp,          \* the temp file of every process, or Absent
    procPC,           \* position of every process in downloadPackage
    procRead,         \* sha1 the process's hasher computed, or ""
    procErr,          \* what downloadPackage returned in the process
    procSeen          \* the cache path as it was when the process's
                      \* DownloadPackages returned

dlVars == <<limit, dist, cache0, fetched, cache, tmp, tpc, terr, tfrom, sem, wg, errCh, errChClosed,
            ctxDone, parentCancelled, mainPC, result>>

exVars == <<batch, zip, vendor, backup, vendor0, tempDir, outside, rootDir,
            idx, ei, epc, lastErr, failedPackages, exResult>>

rsVars == <<require, repositories, todo, cur, ri, tried, lastQuery, rerr,
            packages, errors, rpc, rsErr, caller>>

\* everything that is neither downloader nor extractor state
cfVars == <<cfgFile, cfg, cpc, loadErr, loads>>

inVars == <<run, ipc, registry, store, tree, tree1, ok1, lookups, fetches,
            downloadErr>>

xpVars == <<procDist, procCache, procTmp, procPC, procRead, procErr, procSeen>>

auxVars == <<rsVars, cfVars, inVars, xpVars>>

vars == <<dlVars, exVars, auxVars>>

\* -------------------------------------------------------- resolver: data
\* A requirement name is a string of symbols: "/" and the literal pieces
\* "ext-", "npm-asset", "bower-asset", and word pieces (\\w+).
WordTokens == {"php", "json", "acme", "lib", "x", "y", "a", "b"}

NameSet ==
    { <<"php">>,                                     \* "php"
      <<"ext-", "json">>,                            \* "ext-json"
      <<"ext-", "a", "/", "b">>,                     \* "ext-a/b"
      <<"npm-asset", "/", "x">>,                     \* "npm-asset/x"
      <<"bower-asset", "/", "y">>,                   \* "bower-asset/y"
      <<"acme", "/", "lib">> }                       \* "acme/lib"

NoName == <<>>

\* phpExtRE = ^ext-(\\w+)$
phpExtRE(name) ==
    /\ Len(name) >= 2
    /\ name[1] = "ext-"
    /\ \A i \in 2..Len(name) : name[i] \in WordTokens

\* npmAssetRE = ^npm-asset/
npmAssetRE(name) == HasPrefix(name, <<"npm-asset", "/">>)

\* bowerAssetRE = ^bower-asset/
bowerAssetRE(name) == HasPrefix(name, <<"bower-asset", "/">>)

\* isPlatformRequirement without the comparison with "php"
isPlatformRequirementExtOnly(name) == phpExtRE(name)

isPlatformRequirement(name) == phpExtRE(name) \/ name = <<"php">>

isAssetPackage(name) == npmAssetRE(name) \/ bowerAssetRE(name)

\* strings.Contains
Contains(s, sub) ==
    \E i \in 1..(Len(s) - Len(sub) + 1) : SubSeq(s, i, i + Len(sub) - 1) = sub

\* the literal "asset-packagist.org"
AssetMirror == <<"asset-packagist.org">>

\* the literal "https://packagist.org"
PackagistURL == <<"https", "://", "packagist.org">>

\* the literal "https://"
HttpsPrefix == <<"https", "://">>

\* entries composer.Repositories may hold
RepoSet ==
    { [Type |-> "composer", URL |-> <<"https", "://", "repo.example">>],
      [Type |-> "composer", URL |-> <<"https", "://", "other.example">>],
      [Type |-> "composer", URL |-> <<"https", "://", "asset-packagist.org">>],
      [Type |-> "git",      URL |-> <<"https", "://", "git.example">>],
      [Type |-> "git",      URL |-> <<"https", "://", "asset-packagist.org">>],
      [Type |-> "vcs",      URL |-> <<"https", "://", "vcs.example">>] }

\* the repository lists used with manifests of more than one requirement
BatchRepositories ==
    { <<>>,
      << [Type |-> "composer", URL |-> <<"https", "://", "asset-packagist.org">>],
         [Type |-> "composer", URL |-> <<"https", "://", "repo.example">>] >> }

\* dist.url values a version may carry
DistURLs == { <<>>, <<"http", "://", "h">>, <<"https", "://", "h">> }

\* what http.Get and the JSON decoder deliver for one lookup: a transport
\* error, a status other than 200, an undecodable body, or a document with
\* its versions in encoding order (the version key is the position)
Response(status, versions) == [status |-> status, versions |-> versions]
Responses ==
    { Response("error", <<>>), Response("non200", <<>>),
      Response("undecodable", <<>>) }
    \cup { Response("ok", vs) : vs \in UNION {[1..n -> DistURLs] : n \in 0..MaxVersions} }

\* the responses used with manifests of more than one requirement
BatchResponses ==
    { Response("non200", <<>>),
      Response("ok", << <<"http", "://", "h">> >>),
      Response("ok", << <<"https", "://", "h">> >>) }

\* result of one queryComposerRepository / resolvePackage call
QueryResult(err, version, url) == [err |-> err, Version |-> version, URL |-> url]

NoQuery == [resp |-> Response("none", <<>>), res |-> QueryResult("none", 0, <<>>)]

\* ResolvePackagesWithRepos has not been called
ResolveIdle ==
    /\ require = {}
    /\ repositories = <<>>
    /\ todo = {}
    /\ cur = NoName
    /\ ri = 0
    /\ tried = <<>>
    /\ lastQuery = NoQuery
    /\ rerr = "none"
    /\ packages = <<>>
    /\ errors = <<>>
    /\ rpc = "idle"
    /\ rsErr = "none"
    /\ caller = "idle"

\* --------------------------------------------------------- config: data
\* Config{}: the zero value
ZeroConfig == [level |-> "", format |-> "", max |-> 0]

\* defaultConfig(): Log is filled in, Pkgmgr is left at its zero value
defaultConfig == [level |-> "info", format |-> "text", max |-> 0]

\* a config.yml: every key is absent (<<>>) or present with a value
ConfigFile(level, format, max) ==
    [exists |-> TRUE, malformed |-> FALSE,
     level |-> level, format |-> format, max |-> max]

\* no config.yml
NoConfigFile ==
    [exists |-> FALSE, malformed |-> FALSE,
     level |-> <<>>, format |-> <<>>, max |-> <<>>]

\* a config.yml that yaml.Unmarshal rejects
MalformedConfigFile ==
    [exists |-> TRUE, malformed |-> TRUE,
     level |-> <<>>, format |-> <<>>, max |-> <<>>]

\* values of pkgmgr.max_concurrent_downloads a file may carry
LimitValues == {-1, 0, 1, 5, 50, 51}

ConfigFiles ==
    { ConfigFile(l, f, m) :
        l \in {<<>>, <<"info">>, <<"debug">>, <<"loud">>},
        f \in {<<>>, <<"text">>, <<"json">>, <<"xml">>},
        m \in {<<>>} \cup {<<n>> : n \in LimitValues} }

\* config.Load has not been called
ConfigIdle ==
    /\ cfgFile = NoConfigFile
    /\ cfg = ZeroConfig
    /\ cpc = "idle"
    /\ loadErr = "none"
    /\ loads = 0

\* ------------------------------------------------------ RunInstall: data
NoResponse == Response("none", <<>>)

NoTree == [n \in NameSet |-> 0]

\* RunInstall has not been called
InstallIdle ==
    /\ run = 0
    /\ ipc = "idle"
    /\ registry = [n \in NameSet |-> NoResponse]
    /\ store = {}
    /\ tree = NoTree
    /\ tree1 = NoTree
    /\ ok1 = FALSE
    /\ lookups = 0
    /\ fetches = 0
    /\ downloadErr = "none"

\* ------------------------------------------------- two processes: data
\* the processes racing on one cache key
Procs == {"A", "B"}

\* no second process is running
RaceIdle ==
    /\ procDist = [Checksum |-> "", Shasum |-> ""]
    /\ procCache = Absent
    /\ procTmp = [i \in Procs |-> Absent]
    /\ procPC = [i \in Procs |-> "idle"]
    /\ procRead = [i \in Procs |-> ""]
    /\ procErr = [i \in Procs |-> "none"]
    /\ procSeen = [i \in Procs |-> Absent]

AuxIdle == ResolveIdle /\ ConfigIdle /\ InstallIdle /\ RaceIdle

\* ------------------------------------------------------------ downloader
\* the extractor has not been called
ExtractIdle ==
    /\ batch = 0
    /\ zip = [p \in Packages |-> <<>>]
    /\ vendor = [p \in Packages |-> NoDir]
    /\ backup = [p \in Packages |-> NoDir]
    /\ vendor0 = vendor
    /\ tempDir = NoDir
    /\ outside = {}
    /\ rootDir = <<>>
    /\ idx = 0
    /\ ei = 1
    /\ epc = "idle"
    /\ lastErr = [p \in Packages |-> "none"]
    /\ failedPackages = <<>>
    /\ exResult = "none"

\* expectedHash := pkg.Dist.Checksum; if "" then pkg.Dist.Shasum
expectedHash(d) == IF d.Checksum # "" THEN d.Checksum ELSE d.Shasum

hasDigest(d) == d.Checksum # "" \/ d.Shasum # ""

Init ==
    /\ limit \in 0..MaxLimit
    /\ dist \in [Packages -> Dists]
    /\ fetched = [p \in Packages |-> ""]
    /\ cache \in [Packages -> {Absent, File(TRUE, TRUE, "h2")}]
    /\ cache0 = cache
    \* downloadPackage never reads the digest of an artifact that is cached:
    \* one digest, which the cached file does not match, stands for all
    /\ \A p \in Packages :
          cache[p].exists => dist[p] = [Checksum |-> "h1", Shasum |-> "h2"]
    \* a task reads no digest but its own artifact's: the artifacts still to
    \* be fetched carry the same digests, their bodies differ from task to task
    /\ \A p, q \in Packages :
          (~cache[p].exists /\ ~cache[q].exists) => dist[p] = dist[q]
    /\ tmp = [p \in Packages |-> Absent]
    /\ tpc = [p \in Packages |-> "start"]
    /\ terr = [p \in Packages |-> "none"]
    /\ tfrom = [p \in Packages |-> "none"]
    /\ sem = 0
    /\ wg = MaxPkgs
    /\ errCh = <<>>
    /\ errChClosed = FALSE
    /\ ctxDone = FALSE
    /\ parentCancelled = FALSE
    /\ mainPC = "range"
    /\ result = NoErr
    /\ ExtractIdle
    /\ AuxIdle

\* the task leaves downloadPackage at step w with error kind e (or "nil")
ReturnFrom(p, e, w) ==
    /\ terr' = [terr EXCEPT ![p] = e]
    /\ tfrom' = [tfrom EXCEPT ![p] = w]
    /\ tpc' = [tpc EXCEPT ![p] = "ret"]

\* the task leaves downloadPackage at the step it is in
Return(p, e) == ReturnFrom(p, e, tpc[p])

\* ReturnCleanup without the os.Remove of the temporary file
ReturnKeepsTemp(p, e) ==
    /\ Return(p, e)
    /\ UNCHANGED tmp

\* error return after the deferred cleanup was registered: Close + Remove
ReturnCleanup(p, e) ==
    /\ Return(p, e)
    /\ tmp' = [tmp EXCEPT ![p] = Absent]

\* Acquire admitting one task more than the channel's capacity
AcquireOffByOne(p) ==
    /\ tpc[p] = "start"
    /\ sem <= limit
    /\ sem' = sem + 1
    /\ tpc' = [tpc EXCEPT ![p] = "stat"]
    /\ UNCHANGED <<limit, dist, cache0, fetched, cache, tmp, terr, tfrom, wg, errCh,
                   errChClosed, ctxDone, parentCancelled, mainPC, result,
                   exVars, auxVars>>

\* select: case sem <- struct{}{}
Acquire(p) ==
    /\ tpc[p] = "start"
    /\ sem < limit
    /\ sem' = sem + 1
    /\ tpc' = [tpc EXCEPT ![p] = "stat"]
    /\ UNCHANGED <<limit, dist, cache0, fetched, cache, tmp, terr, tfrom, wg, errCh, errChClosed,
                   ctxDone, parentCancelled, mainPC, result, exVars, auxVars>>

\* select: case <-ctx.Done(): return   (then the deferred wg.Done)
AbortWait(p) ==
    /\ tpc[p] = "start"
    /\ ctxDone
    /\ tpc' = [tpc EXCEPT ![p] = "done"]
    /\ wg' = wg - 1
    /\ UNCHANGED <<limit, dist, cache0, fetched, cache, tmp, terr, tfrom, sem, errCh, errChClosed,
                   ctxDone, parentCancelled, mainPC, result, exVars, auxVars>>

\* StatCache downloading although the entry is cached
StatCacheIgnoresHit(p) ==
    /\ tpc[p] = "stat"
    /\ tpc' = [tpc EXCEPT ![p] = "request"]
    /\ UNCHANGED <<terr, tfrom>>
    /\ UNCHANGED <<limit, dist, cache0, fetched, cache, tmp, sem, wg,
                   errCh, errChClosed, ctxDone, parentCancelled, mainPC, result,
                   exVars, auxVars>>

\* MkdirAll of the cache directory, then the cache-hit test.  MkdirAll does
\* nothing and returns nil for a directory that exists, and the directory
\* of an existing cache entry exists.
StatCache(p) ==
    /\ tpc[p] = "stat"
    /\ \/ /\ cache[p] = Absent
          /\ Return(p, "own")                            \* MkdirAll failed
       \/ /\ cache[p] # Absent
          /\ Return(p, "nil")                            \* already cached
       \/ /\ cache[p] = Absent
          /\ tpc' = [tpc EXCEPT ![p] = "request"]
          /\ UNCHANGED <<terr, tfrom>>
    /\ UNCHANGED <<limit, dist, cache0, fetched, cache, tmp, sem, wg, errCh, errChClosed,
                   ctxDone, parentCancelled, mainPC, result, exVars, auxVars>>

\* NewRequestWithContext + client.Do + status check
Request(p) ==
    /\ tpc[p] = "request"
    /\ IF ctxDone
         THEN Return(p, "cancel")
         ELSE \/ Return(p, "own")                        \* transport / non-200
              \/ /\ tpc' = [tpc EXCEPT ![p] = "create"]
                 /\ UNCHANGED <<terr, tfrom>>
    /\ UNCHANGED <<limit, dist, cache0, fetched, cache, tmp, sem, wg, errCh, errChClosed,
                   ctxDone, parentCancelled, mainPC, result, exVars, auxVars>>

\* os.CreateTemp in the cache directory, then os.Chmod
CreateTemp(p) ==
    /\ tpc[p] = "create"
    /\ \/ /\ Return(p, "own")                            \* CreateTemp failed
          /\ UNCHANGED tmp
       \/ /\ ReturnFrom(p, "own", "chmod")               \* Chmod failed: Close
          /\ UNCHANGED tmp                               \* and Remove
       \/ /\ \E h \in Hashes : tmp' = [tmp EXCEPT ![p] = File(FALSE, FALSE, h)]
          /\ tpc' = [tpc EXCEPT ![p] = "copy"]
          /\ UNCHANGED <<terr, tfrom>>
    /\ UNCHANGED <<limit, dist, cache0, fetched, cache, sem, wg, errCh, errChClosed,
                   ctxDone, parentCancelled, mainPC, result, exVars, auxVars>>

\* CopyBody going on to Sync when io.Copy failed
CopyBodyIgnoresError(p) ==
    /\ tpc[p] = "copy"
    /\ tpc' = [tpc EXCEPT ![p] = "sync"]
    /\ \/ UNCHANGED tmp
       \/ tmp' = [tmp EXCEPT ![p] = [@ EXCEPT !.full = TRUE]]
    /\ UNCHANGED <<limit, dist, cache0, fetched, cache, terr, tfrom, sem, wg, errCh,
                   errChClosed, ctxDone, parentCancelled, mainPC, result,
                   exVars, auxVars>>

\* io.Copy(tempFile, resp.Body)
CopyBody(p) ==
    /\ tpc[p] = "copy"
    /\ \/ ReturnCleanup(p, "own")
       \/ /\ ctxDone
          /\ ReturnCleanup(p, "cancel")
       \/ /\ tmp' = [tmp EXCEPT ![p] = [@ EXCEPT !.full = TRUE]]
          /\ tpc' = [tpc EXCEPT ![p] = "sync"]
          /\ UNCHANGED <<terr, tfrom>>
    /\ UNCHANGED <<limit, dist, cache0, fetched, cache, sem, wg, errCh, errChClosed,
                   ctxDone, parentCancelled, mainPC, result, exVars, auxVars>>

\* tempFile.Sync(), then tempFile.Close() and tempFile = nil
SyncClose(p) ==
    /\ tpc[p] = "sync"
    /\ \/ ReturnCleanup(p, "own")                        \* Sync or Close failed
       \/ /\ tmp' = [tmp EXCEPT ![p] = [@ EXCEPT !.synced = TRUE]]
          /\ tpc' = [tpc EXCEPT ![p] = "rename"]
          /\ UNCHANGED <<terr, tfrom>>
    /\ UNCHANGED <<limit, dist, cache0, fetched, cache, sem, wg, errCh, errChClosed,
                   ctxDone, parentCancelled, mainPC, result, exVars, auxVars>>

\* os.Rename(tempPath, cachePath)
RenameToCache(p) ==
    /\ tpc[p] = "rename"
    /\ \/ /\ ReturnCleanup(p, "own")                     \* rename failed
          /\ UNCHANGED <<cache, fetched>>
       \/ /\ cache' = [cache EXCEPT ![p] = tmp[p]]
          /\ fetched' = [fetched EXCEPT ![p] = tmp[p].hash]
          /\ tmp' = [tmp EXCEPT ![p] = Absent]
          /\ IF hasDigest(dist[p])
               THEN /\ tpc' = [tpc EXCEPT ![p] = "verify"]
                    /\ UNCHANGED <<terr, tfrom>>
               ELSE Return(p, "nil")
    /\ UNCHANGED <<limit, dist, cache0, sem, wg, errCh, errChClosed,
                   ctxDone, parentCancelled, mainPC, result, exVars, auxVars>>

\* VerifyChecksum without the os.Remove of a mismatching entry
VerifyChecksumKeepsMismatch(p) ==
    /\ tpc[p] = "verify"
    /\ cache[p] # Absent
    /\ Return(p, IF cache[p].hash # expectedHash(dist[p]) THEN "own" ELSE "nil")
    /\ UNCHANGED <<limit, dist, cache0, fetched, cache, tmp, sem, wg,
                   errCh, errChClosed, ctxDone, parentCancelled, mainPC, result,
                   exVars, auxVars>>

\* re-open, hash and compare; remove the entry on mismatch
VerifyChecksum(p) ==
    /\ tpc[p] = "verify"
    /\ \/ /\ ReturnFrom(p, "own", "reopen")              \* os.Open / io.Copy
          /\ UNCHANGED cache                             \* into hasher failed
       \/ /\ cache[p] # Absent
          /\ IF cache[p].hash # expectedHash(dist[p])
               THEN /\ cache' = [cache EXCEPT ![p] = Absent]
                    /\ Return(p, "own")
               ELSE /\ UNCHANGED cache
                    /\ Return(p, "nil")
    /\ UNCHANGED <<limit, dist, cache0, fetched, tmp, sem, wg, errCh, errChClosed,
                   ctxDone, parentCancelled, mainPC, result, exVars, auxVars>>

\* TaskReturn whose select may drop the error while ctx is not cancelled
TaskReturnDropsError(p) ==
    /\ tpc[p] = "ret"
    /\ \/ /\ terr[p] # "nil"
          /\ errCh' = Append(errCh, Err(p, terr[p]))
       \/ UNCHANGED errCh
    /\ sem' = sem - 1
    /\ wg' = wg - 1
    /\ tpc' = [tpc EXCEPT ![p] = "done"]
    /\ tfrom' = [tfrom EXCEPT ![p] = "none"]
    /\ UNCHANGED <<limit, dist, cache0, fetched, cache, tmp, terr, errChClosed,
                   ctxDone, parentCancelled, mainPC, result, exVars, auxVars>>

\* TaskReturn without the deferred <-sem after a failed fetch
TaskReturnKeepsSlot(p) ==
    /\ tpc[p] = "ret"
    /\ \/ /\ terr[p] = "nil"
          /\ UNCHANGED errCh
       \/ /\ terr[p] # "nil"
          /\ errCh' = Append(errCh, Err(p, terr[p]))
       \/ /\ terr[p] # "nil"
          /\ ctxDone
          /\ UNCHANGED errCh
    /\ sem' = IF terr[p] = "nil" THEN sem - 1 ELSE sem
    /\ wg' = wg - 1
    /\ tpc' = [tpc EXCEPT ![p] = "done"]
    /\ tfrom' = [tfrom EXCEPT ![p] = "none"]
    /\ UNCHANGED <<limit, dist, cache0, fetched, cache, tmp, terr, errChClosed,
                   ctxDone, parentCancelled, mainPC, result, exVars, auxVars>>

\* TaskReturn sending on an unbuffered errCh with no ctx.Done() arm: the
\* send needs DownloadPackages to be receiving
TaskReturnUnbufferedSend(p) ==
    /\ tpc[p] = "ret"
    /\ \/ /\ terr[p] = "nil"
          /\ UNCHANGED errCh
       \/ /\ terr[p] # "nil"
          /\ mainPC = "range"
          /\ errCh = <<>>
          /\ errCh' = Append(errCh, Err(p, terr[p]))
    /\ sem' = sem - 1
    /\ wg' = wg - 1
    /\ tpc' = [tpc EXCEPT ![p] = "done"]
    /\ tfrom' = [tfrom EXCEPT ![p] = "none"]
    /\ UNCHANGED <<limit, dist, cache0, fetched, cache, tmp, terr, errChClosed,
                   ctxDone, parentCancelled, mainPC, result, exVars, auxVars>>

\* the error select of the task, then the deferred <-sem and wg.Done
TaskReturn(p) ==
    /\ tpc[p] = "ret"
    /\ \/ /\ terr[p] = "nil"
          /\ UNCHANGED errCh
       \/ /\ terr[p] # "nil"
          /\ errCh' = Append(errCh, Err(p, terr[p]))     \* case errCh <- err
       \/ /\ terr[p] # "nil"
          /\ ctxDone                                     \* case <-ctx.Done()
          /\ UNCHANGED errCh
    /\ sem' = sem - 1
    /\ wg' = wg - 1
    /\ tpc' = [tpc EXCEPT ![p] = "done"]
    /\ tfrom' = [tfrom EXCEPT ![p] = "none"]
    /\ UNCHANGED <<limit, dist, cache0, fetched, cache, tmp, terr, errChClosed,
                   ctxDone, parentCancelled, mainPC, result, exVars, auxVars>>

\* go func() { wg.Wait(); close(errCh) }()
Closer ==
    /\ ~errChClosed
    /\ wg = 0
    /\ errChClosed' = TRUE
    /\ UNCHANGED <<limit, dist, cache0, fetched, cache, tmp, tpc, terr, tfrom, sem, wg, errCh,
                   ctxDone, parentCancelled, mainPC, result, exVars, auxVars>>

\* for err := range errCh { cancel(); return err }
MainReceive ==
    /\ mainPC = "range"
    /\ errCh # <<>>
    /\ result' = Head(errCh)
    /\ errCh' = Tail(errCh)
    /\ ctxDone' = TRUE
    /\ mainPC' = "returned"
    /\ UNCHANGED <<limit, dist, cache0, fetched, cache, tmp, tpc, terr, tfrom, sem, wg, errChClosed,
                   parentCancelled, exVars, auxVars>>

\* the range loop ends on the closed, drained channel: return nil
MainFinish ==
    /\ mainPC = "range"
    /\ errCh = <<>>
    /\ errChClosed
    /\ result' = NoErr
    /\ ctxDone' = TRUE                                   \* defer cancel()
    /\ mainPC' = "returned"
    /\ UNCHANGED <<limit, dist, cache0, fetched, cache, tmp, tpc, terr, tfrom, sem, wg, errCh,
                   errChClosed, parentCancelled, exVars, auxVars>>

\* the caller cancels the context it passed in while the call is running
ParentCancel ==
    /\ mainPC = "range"
    /\ ~parentCancelled
    /\ parentCancelled' = TRUE
    /\ ctxDone' = TRUE
    /\ UNCHANGED <<limit, dist, cache0, fetched, cache, tmp, tpc, terr, tfrom, sem, wg, errCh,
                   errChClosed, mainPC, result, exVars, auxVars>>

Next ==
    \/ \E p \in Packages : Acquire(p)
    \/ \E p \in Packages : AbortWait(p)
    \/ \E p \in Packages : StatCache(p)
    \/ \E p \in Packages : Request(p)
    \/ \E p \in Packages : CreateTemp(p)
    \/ \E p \in Packages : CopyBody(p)
    \/ \E p \in Packages : SyncClose(p)
    \/ \E p \in Packages : RenameToCache(p)
    \/ \E p \in Packages : VerifyChecksum(p)
    \/ \E p \in Packages : TaskReturn(p)
    \/ Closer
    \/ MainReceive
    \/ MainFinish
    \/ ParentCancel

Spec == Init /\ [][Next]_vars

\* the steps of DownloadPackages and its goroutines: everything but the
\* caller's cancellation
Program ==
    \/ \E p \in Packages : Acquire(p)
    \/ \E p \in Packages : AbortWait(p)
    \/ \E p \in Packages : StatCache(p)
    \/ \E p \in Packages : Request(p)
    \/ \E p \in Packages : CreateTemp(p)
    \/ \E p \in Packages : CopyBody(p)
    \/ \E p \in Packages : SyncClose(p)
    \/ \E p \in Packages : RenameToCache(p)
    \/ \E p \in Packages : VerifyChecksum(p)
    \/ \E p \in Packages : TaskReturn(p)
    \/ Closer
    \/ MainReceive
    \/ MainFinish

\* DownloadPackages called with a valid limit (config/types.go
\* ValidMaxConcurrentDownloads: at least 1)
InitLive == Init /\ limit >= 1

\* The Go scheduler runs a goroutine that can take a step, and every fetch
\* step (request, copy, sync, rename, verification) terminates: as long as
\* some step of the call is possible, one is taken.
SpecLive == InitLive /\ [][Next]_vars /\ WF_vars(Program)

\* DownloadPackages called with whatever limit config.Load returned, the
\* goroutines scheduled as in SpecLive; the caller need never cancel
SpecFair == Init /\ [][Next]_vars /\ WF_vars(Program)

\* ------------------------------------------------------------- extractor
\* the downloader is not running; the cache holds what earlier runs left
DownloadIdle ==
    /\ limit = 1
    /\ dist = [p \in Packages |-> [Checksum |-> "", Shasum |-> ""]]
    /\ fetched = [p \in Packages |-> ""]
    /\ tmp = [p \in Packages |-> Absent]
    /\ tpc = [p \in Packages |-> "done"]
    /\ terr = [p \in Packages |-> "none"]
    /\ tfrom = [p \in Packages |-> "none"]
    /\ sem = 0
    /\ wg = 0
    /\ errCh = <<>>
    /\ errChClosed = TRUE
    /\ ctxDone = FALSE
    /\ parentCancelled = FALSE
    /\ mainPC = "idle"
    /\ result = NoErr

\* cache entry and target-tree state of one artifact before ExtractPackages;
\* an absent cache entry has no archive content
StartStates(n) ==
    { st \in [cache : {Absent, File(TRUE, TRUE, "h1")},
              zip : IF n = 1 THEN Archives ELSE BatchArchives \cup {<<>>},
              vendor : {NoDir, OldDir},
              backup : IF n = 1 THEN {NoDir, EmptyDir, StaleDir} ELSE {NoDir}] :
        st.cache = Absent => st.zip = <<>> }

\* a slot of the model that is not part of the batch
NotInBatch == [cache |-> Absent, zip |-> <<>>, vendor |-> NoDir, backup |-> NoDir]

\* ExtractPackages is called with a batch of 1..MaxPkgs artifacts.  A batch
\* of one artifact is explored with every archive and every state of the
\* target tree; larger batches with the archives of BatchArchives.
InitExtract ==
    /\ DownloadIdle
    /\ batch \in 1..MaxPkgs
    /\ \E st \in [1..batch -> StartStates(batch)] :
          LET at(p) == IF p <= batch THEN st[p] ELSE NotInBatch
          IN  /\ cache = [p \in Packages |-> at(p).cache]
              /\ cache0 = cache
              /\ zip = [p \in Packages |-> at(p).zip]
              /\ vendor = [p \in Packages |-> at(p).vendor]
              /\ backup = [p \in Packages |-> at(p).backup]
    /\ vendor0 = vendor
    /\ tempDir = NoDir
    /\ outside = {}
    /\ rootDir = <<>>
    /\ idx = 0
    /\ ei = 1
    /\ epc = "loop"
    /\ lastErr = [p \in Packages |-> "none"]
    /\ failedPackages = <<>>
    /\ exResult = "none"
    /\ AuxIdle

exFrame == UNCHANGED <<limit, dist, cache0, fetched, cache, tmp, tpc, terr, tfrom, sem, wg, errCh,
                       errChClosed, parentCancelled, mainPC, result,
                       batch, zip, vendor0, auxVars>>

\* destPath lies strictly below tempDir, component by component
ReallyInside(destPath) ==
    LET cs == CleanComps(Split(destPath), <<>>)
        ds == CleanComps(Split(TempDirPath), <<>>)
    IN  /\ Len(cs) > Len(ds)
        /\ SubSeq(cs, 1, Len(ds)) = ds

\* destPath relative to tempDir
RelToTemp(destPath) == TrimPrefix(destPath, Clean(TempDirPath) \o <<Sep>>)

\* EReturn without the deferred os.RemoveAll(tempDir)
EReturnKeepsTemp(e) ==
    /\ lastErr' = [lastErr EXCEPT ![ei] = e]
    /\ failedPackages' = IF e = "nil" THEN failedPackages
                         ELSE Append(failedPackages, ei)
    /\ tempDir' = tempDir
    /\ rootDir' = <<>>
    /\ idx' = 0
    /\ ei' = ei + 1
    /\ epc' = "loop"

\* extractPackage returns e ("nil" or an error) for artifact ei: the deferred
\* RemoveAll(tempDir) runs, ExtractPackages records a failure and continues
EReturn(e) ==
    /\ lastErr' = [lastErr EXCEPT ![ei] = e]
    /\ failedPackages' = IF e = "nil" THEN failedPackages
                         ELSE Append(failedPackages, ei)
    /\ tempDir' = NoDir
    /\ rootDir' = <<>>
    /\ idx' = 0
    /\ ei' = ei + 1
    /\ epc' = "loop"

\* head of the loop of ExtractPackages: ctx check, then extractPackage
ExtractPackagesLoop ==
    /\ epc = "loop"
    /\ ei <= batch
    /\ IF ctxDone
         THEN /\ exResult' = "cancelled"                 \* return ctx.Err()
              /\ epc' = "returned"
         ELSE /\ epc' = "mktemp"
              /\ UNCHANGED exResult
    /\ UNCHANGED <<vendor, backup, tempDir, outside, rootDir, idx, ei,
                   lastErr, failedPackages, ctxDone>>
    /\ exFrame

\* after the loop: the combined error, or nil
ExtractPackagesDone ==
    /\ epc = "loop"
    /\ ei > batch
    /\ exResult' = IF Len(failedPackages) > 0 THEN "failed" ELSE "nil"
    /\ epc' = "returned"
    /\ UNCHANGED <<vendor, backup, tempDir, outside, rootDir, idx, ei,
                   lastErr, failedPackages, ctxDone>>
    /\ exFrame

\* os.MkdirAll(parentDir), os.MkdirTemp(parentDir, base + ".tmp")
MkdirTemp ==
    /\ epc = "mktemp"
    /\ \/ EReturn("mktemp")
       \/ /\ tempDir' = EmptyDir
          /\ epc' = "open"
          /\ UNCHANGED <<rootDir, idx, ei, lastErr, failedPackages>>
    /\ UNCHANGED <<vendor, backup, outside, exResult, ctxDone>>
    /\ exFrame

\* OpenZip reporting an artifact without a cached archive as extracted
OpenZipSkipsAbsent ==
    /\ epc = "open"
    /\ \/ EReturn(IF cache[ei] = Absent THEN "nil" ELSE "open")
       \/ /\ cache[ei] # Absent
          /\ rootDir' = computeCommonPrefix(zip[ei])
          /\ idx' = 1
          /\ epc' = "entries"
          /\ UNCHANGED <<tempDir, ei, lastErr, failedPackages>>
    /\ UNCHANGED <<vendor, backup, outside, exResult, ctxDone>>
    /\ exFrame

\* zip.OpenReader(cachePath), computeCommonPrefix(zipReader.File)
OpenZip ==
    /\ epc = "open"
    /\ \/ EReturn("open")                     \* absent or unreadable archive
       \/ /\ cache[ei] # Absent
          /\ rootDir' = computeCommonPrefix(zip[ei])
          /\ idx' = 1
          /\ epc' = "entries"
          /\ UNCHANGED <<tempDir, ei, lastErr, failedPackages>>
    /\ UNCHANGED <<vendor, backup, outside, exResult, ctxDone>>
    /\ exFrame

\* one iteration of the entry loop: ctx check, then extractZipFile
ExtractEntry ==
    /\ epc = "entries"
    /\ idx <= Len(zip[ei])
    /\ IF ctxDone
         THEN /\ EReturn("cancel")
              /\ UNCHANGED outside
         ELSE LET r == extractZipFile(zip[ei][idx], TempDirPath, rootDir)
                  stay == UNCHANGED <<rootDir, ei, epc, lastErr,
                                      failedPackages>>
              IN  \/ /\ r.do = "skip"
                     /\ idx' = idx + 1
                     /\ stay
                     /\ UNCHANGED <<tempDir, outside>>
                  \/ /\ r.do = "illegal"
                     /\ EReturn("illegal")
                     /\ UNCHANGED outside
                  \/ /\ r.do = "write"                   \* created and copied
                     /\ idx' = idx + 1
                     /\ stay
                     /\ IF ReallyInside(r.destPath)
                          THEN /\ tempDir' = [tempDir EXCEPT !.files =
                                     @ \cup {[path |-> RelToTemp(r.destPath),
                                              full |-> TRUE]}]
                               /\ UNCHANGED outside
                          ELSE /\ outside' = outside \cup {r.destPath}
                               /\ UNCHANGED tempDir
                  \/ /\ r.do = "write"                   \* MkdirAll, Open,
                     /\ EReturn("entry")                 \* OpenFile or Copy
                     /\ UNCHANGED outside                \* failed
    /\ UNCHANGED <<vendor, backup, exResult, ctxDone>>
    /\ exFrame

\* os.Stat(vendorPath); os.Rename(vendorPath, backupPath)
BackupExisting ==
    /\ epc = "entries"
    /\ idx > Len(zip[ei])
    /\ \/ /\ EReturn("stat")                  \* Stat failed, not IsNotExist
          /\ UNCHANGED <<vendor, backup>>
       \/ /\ vendor[ei].exists
          /\ EReturn("backup")                \* rename aside failed
          /\ UNCHANGED <<vendor, backup>>
       \/ /\ vendor[ei].exists
          /\ ~(backup[ei].exists /\ backup[ei].files # {})
          /\ backup' = [backup EXCEPT ![ei] = vendor[ei]]
          /\ vendor' = [vendor EXCEPT ![ei] = NoDir]
          /\ epc' = "swap"
          /\ UNCHANGED <<tempDir, rootDir, idx, ei, lastErr, failedPackages>>
       \/ /\ ~vendor[ei].exists
          /\ epc' = "swap"
          /\ UNCHANGED <<vendor, backup, tempDir, rootDir, idx, ei, lastErr,
                         failedPackages>>
    /\ UNCHANGED <<outside, exResult, ctxDone>>
    /\ exFrame

\* SwapIntoPlace putting the new files next to those of the directory that
\* was moved aside
SwapIntoPlaceOverOld ==
    /\ epc = "swap"
    /\ \/ /\ vendor' = [vendor EXCEPT ![ei] =
                          [exists |-> TRUE,
                           files |-> tempDir.files \cup backup[ei].files]]
          /\ tempDir' = NoDir
          /\ epc' = "cleanup"
       \/ /\ epc' = "restore"
          /\ UNCHANGED <<vendor, tempDir>>
    /\ UNCHANGED <<backup, outside, rootDir, idx, ei, lastErr, failedPackages,
                   exResult, ctxDone>>
    /\ exFrame

\* os.Rename(tempDir, vendorPath)
SwapIntoPlace ==
    /\ epc = "swap"
    /\ \/ /\ vendor' = [vendor EXCEPT ![ei] = tempDir]
          /\ tempDir' = NoDir
          /\ epc' = "cleanup"
       \/ /\ epc' = "restore"                 \* rename failed
          /\ UNCHANGED <<vendor, tempDir>>
    /\ UNCHANGED <<backup, outside, rootDir, idx, ei, lastErr, failedPackages,
                   exResult, ctxDone>>
    /\ exFrame

\* RestoreBackup removing the backup instead of renaming it back
RestoreBackupRemoves ==
    /\ epc = "restore"
    /\ backup' = [backup EXCEPT ![ei] = NoDir]
    /\ UNCHANGED vendor
    /\ EReturn("swap")
    /\ UNCHANGED <<outside, exResult, ctxDone>>
    /\ exFrame

\* after the failed swap: os.Stat(backupPath), os.Rename(backupPath,
\* vendorPath), return the swap error
RestoreBackup ==
    /\ epc = "restore"
    /\ \/ /\ backup[ei].exists
          /\ vendor' = [vendor EXCEPT ![ei] = backup[ei]]
          /\ backup' = [backup EXCEPT ![ei] = NoDir]
       \/ /\ backup[ei].exists               \* restoreErr is only logged
          /\ UNCHANGED <<vendor, backup>>
       \/ /\ ~backup[ei].exists
          /\ UNCHANGED <<vendor, backup>>
    /\ EReturn("swap")
    /\ UNCHANGED <<outside, exResult, ctxDone>>
    /\ exFrame

\* CleanupBackup deleting the cached archive it has installed
CleanupBackupDropsArchive ==
    /\ epc = "cleanup"
    /\ \/ /\ backup[ei].exists
          /\ backup' = [backup EXCEPT ![ei] = NoDir]
       \/ /\ ~backup[ei].exists
          /\ UNCHANGED backup
    /\ cache' = [cache EXCEPT ![ei] = Absent]
    /\ EReturn("nil")
    /\ UNCHANGED <<vendor, outside, exResult, ctxDone>>
    /\ UNCHANGED <<limit, dist, cache0, fetched, tmp, tpc, terr, tfrom, sem, wg,
                   errCh, errChClosed, parentCancelled, mainPC, result,
                   batch, zip, vendor0, auxVars>>

\* after the swap: os.Stat(backupPath), os.RemoveAll(backupPath),
\* tempDir = "", return nil
CleanupBackup ==
    /\ epc = "cleanup"
    /\ \/ /\ backup[ei].exists
          /\ backup' = [backup EXCEPT ![ei] = NoDir]
       \/ /\ backup[ei].exists               \* RemoveAll failed: a warning
          /\ UNCHANGED backup
       \/ /\ ~backup[ei].exists
          /\ UNCHANGED backup
    /\ EReturn("nil")
    /\ UNCHANGED <<vendor, outside, exResult, ctxDone>>
    /\ exFrame

\* the shared cancellation signal fires while ExtractPackages runs
ExtractCancel ==
    /\ epc \notin {"idle", "returned"}
    /\ ~ctxDone
    /\ ctxDone' = TRUE
    /\ UNCHANGED exVars
    /\ UNCHANGED <<limit, dist, cache0, fetched, cache, tmp, tpc, terr, tfrom, sem, wg, errCh,
                   errChClosed, parentCancelled, mainPC, result, auxVars>>

NextExtract ==
    \/ ExtractPackagesLoop
    \/ ExtractPackagesDone
    \/ MkdirTemp
    \/ OpenZip
    \/ ExtractEntry
    \/ BackupExisting
    \/ SwapIntoPlace
    \/ RestoreBackup
    \/ CleanupBackup
    \/ ExtractCancel

SpecExtract == InitExtract /\ [][NextExtract]_vars

\* ------------------------------------------------------------- resolver
\* neither DownloadPackages nor ExtractPackages is running; the cache is empty
StoreIdle ==
    /\ DownloadIdle
    /\ cache = [p \in Packages |-> Absent]
    /\ cache0 = cache
    /\ ExtractIdle

\* every value composer.Repositories may have
RepoLists == UNION {[1..n -> RepoSet] : n \in 0..MaxRepos}

\* RunInstall / RunUpdate call ResolvePackagesWithRepos with the manifest's
\* require map and repository list.  A manifest with at most one requirement
\* is explored with every repository list and every response; larger
\* manifests with BatchRepositories and BatchResponses.
InitResolve ==
    /\ StoreIdle
    /\ require \in {r \in SUBSET NameSet : Cardinality(r) <= MaxReqs}
    /\ repositories \in IF Cardinality(require) <= 1 THEN RepoLists
                                                   ELSE BatchRepositories
    /\ todo = require
    /\ cur = NoName
    /\ ri = 0
    /\ tried = <<>>
    /\ lastQuery = NoQuery
    /\ rerr = "none"
    /\ packages = <<>>
    /\ errors = <<>>
    /\ rpc = "loop"
    /\ rsErr = "none"
    /\ caller = "resolving"
    /\ ConfigIdle
    /\ InstallIdle
    /\ RaceIdle

rsFrame == UNCHANGED <<dlVars, exVars, cfVars, inVars, xpVars, require,
                       repositories>>

\* the responses a lookup of this manifest may get
ResponsesFor == IF Cardinality(require) <= 1 THEN Responses ELSE BatchResponses

\* qualifies without the scheme test
qualifiesNonEmpty(url) == url # <<>>

\* vdata.Dist.URL != "" && strings.HasPrefix(vdata.Dist.URL, "https://")
qualifies(url) == url # <<>> /\ HasPrefix(url, HttpsPrefix)

\* queryComposerRepository for a response: the results it can return.  The
\* versions are decoded into a Go map and the loop ranges over that map, so
\* the iteration order is arbitrary and the first qualifying version it
\* meets can be any qualifying version of the document.
queryComposerRepository(resp) ==
    IF resp.status = "error" THEN {QueryResult("lookup", 0, <<>>)}
    ELSE IF resp.status = "non200" THEN {QueryResult("status", 0, <<>>)}
    ELSE IF resp.status = "undecodable" THEN {QueryResult("decode", 0, <<>>)}
    ELSE LET ok == {v \in 1..Len(resp.versions) : qualifies(resp.versions[v])}
         IN  IF ok = {} THEN {QueryResult("nohttps", 0, <<>>)}
             ELSE {QueryResult("nil", v, resp.versions[v]) : v \in ok}

\* queries asking every composer repository, whatever the requirement
queriesAnyComposer(name, repo) == repo.Type = "composer"

\* queries without the test of repo.Type
queriesAnyType(name, repo) ==
    IF isAssetPackage(name)
      THEN Contains(repo.URL, AssetMirror)
      ELSE ~Contains(repo.URL, AssetMirror)

\* does the repository loop of resolvePackage query repo for name
queries(name, repo) ==
    IF isAssetPackage(name)
      THEN repo.Type = "composer" /\ Contains(repo.URL, AssetMirror)
      ELSE repo.Type = "composer" /\ ~Contains(repo.URL, AssetMirror)

\* resolvePackage returns the package: packages = append(packages, pkg)
Succeed(r) ==
    /\ packages' = Append(packages, [Name |-> cur, Version |-> r.Version,
                                     URL |-> r.URL])
    /\ rerr' = "nil"
    /\ rpc' = "loop"
    /\ UNCHANGED <<errors, rsErr>>

\* Fail returning the error of the requirement to the caller at once
FailAborts(e) ==
    /\ rerr' = e
    /\ rsErr' = "failed"
    /\ rpc' = "returned"
    /\ UNCHANGED <<packages, errors>>

\* resolvePackage returns error e: warn, errors = append(errors, ...), continue
Fail(e) ==
    /\ errors' = Append(errors, cur)
    /\ rerr' = e
    /\ rpc' = "loop"
    /\ UNCHANGED <<packages, rsErr>>

\* for name, constraint := range require: skip a platform requirement, call
\* resolvePackage for any other (a Go map is ranged over in arbitrary order)
ResolveLoop ==
    /\ rpc = "loop"
    /\ \E name \in todo :
          /\ todo' = todo \ {name}
          /\ IF isPlatformRequirement(name)
               THEN UNCHANGED <<cur, ri, tried, lastQuery, rerr, rpc>>
               ELSE /\ cur' = name
                    /\ ri' = 1
                    /\ tried' = <<>>
                    /\ lastQuery' = NoQuery
                    /\ rerr' = "none"
                    /\ rpc' = "chain"
    /\ UNCHANGED <<packages, errors, rsErr, caller>>
    /\ rsFrame

\* one iteration of the repository loop of resolvePackage
TryRepository ==
    /\ rpc = "chain"
    /\ ri <= Len(repositories)
    /\ LET repo == repositories[ri]
       IN  IF queries(cur, repo)
             THEN \E resp \in ResponsesFor :
                  \E r \in queryComposerRepository(resp) :
                     /\ lastQuery' = [resp |-> resp, res |-> r]
                     /\ tried' = Append(tried, [url |-> repo.URL,
                                                ok |-> r.err = "nil"])
                     /\ IF r.err = "nil"
                          THEN /\ Succeed(r)
                               /\ UNCHANGED ri
                          ELSE /\ ri' = ri + 1
                               /\ UNCHANGED <<packages, errors, rerr, rpc,
                                              rsErr>>
             ELSE /\ ri' = ri + 1                 \* not asked (git: a notice)
                  /\ UNCHANGED <<tried, lastQuery, packages, errors, rerr,
                                 rpc, rsErr>>
    /\ UNCHANGED <<todo, cur, caller>>
    /\ rsFrame

\* Fallback giving up on a non-asset requirement without the default registry
FallbackWithoutRegistry ==
    /\ rpc = "chain"
    /\ ri > Len(repositories)
    /\ Fail(IF isAssetPackage(cur) THEN "asset" ELSE "lookup")
    /\ UNCHANGED <<tried, lastQuery, todo, cur, ri, caller>>
    /\ rsFrame

\* after the repository loop: the asset-not-found error for an asset
\* requirement, the lookup at https://packagist.org for any other
Fallback ==
    /\ rpc = "chain"
    /\ ri > Len(repositories)
    /\ IF isAssetPackage(cur)
         THEN /\ Fail("asset")
              /\ UNCHANGED <<tried, lastQuery>>
         ELSE \E resp \in ResponsesFor :
              \E r \in queryComposerRepository(resp) :
                 /\ lastQuery' = [resp |-> resp, res |-> r]
                 /\ tried' = Append(tried, [url |-> PackagistURL,
                                            ok |-> r.err = "nil"])
                 /\ IF r.err = "nil" THEN Succeed(r) ELSE Fail(r.err)
    /\ UNCHANGED <<todo, cur, ri, caller>>
    /\ rsFrame

\* the range loop is over: the summary is logged, return packages, nil
ResolveReturn ==
    /\ rpc = "loop"
    /\ todo = {}
    /\ rpc' = "returned"
    /\ rsErr' = "nil"
    /\ UNCHANGED <<todo, cur, ri, tried, lastQuery, rerr, packages, errors,
                   caller>>
    /\ rsFrame

\* RunInstall / RunUpdate: if err != nil { return "resolve packages" },
\* otherwise go on to DownloadPackages
CallerAfterResolve ==
    /\ rpc = "returned"
    /\ caller = "resolving"
    /\ caller' = IF rsErr # "nil" THEN "failed" ELSE "download"
    /\ UNCHANGED <<todo, cur, ri, tried, lastQuery, rerr, packages, errors,
                   rpc, rsErr>>
    /\ rsFrame

NextResolve ==
    \/ ResolveLoop
    \/ TryRepository
    \/ Fallback
    \/ ResolveReturn
    \/ CallerAfterResolve

SpecResolve == InitResolve /\ [][NextResolve]_vars

\* ------------------------------------------------------------ config.Load
InitConfig ==
    /\ StoreIdle
    /\ ResolveIdle
    /\ cfgFile \in {NoConfigFile, MalformedConfigFile} \cup ConfigFiles
    /\ cfg = ZeroConfig
    /\ cpc = "path"
    /\ loadErr = "none"
    /\ loads = 1
    /\ InstallIdle
    /\ RaceIdle

cfFrame == UNCHANGED <<dlVars, exVars, rsVars, inVars, xpVars, loads>>

IsValidLogLevel(level) == level \in {"debug", "info", "warn", "error"}

IsValidLogFormat(format) == format \in {"text", "json", "logfmt"}

ValidMaxConcurrentDownloads(n) == n >= 1 /\ n <= 50

\* Load returns Config{}, err
LoadFails(e) ==
    /\ cfg' = ZeroConfig
    /\ loadErr' = e
    /\ cpc' = "returned"

\* yaml.Marshal(&cfg): every field is written
Marshal(c) == ConfigFile(<<c.level>>, <<c.format>>, <<c.max>>)

\* yaml.Unmarshal(data, &cfg): a key of the file overwrites the field, a
\* field without a key keeps the value it has
Unmarshal(file, c) ==
    [level  |-> IF file.level = <<>> THEN c.level ELSE file.level[1],
     format |-> IF file.format = <<>> THEN c.format ELSE file.format[1],
     max    |-> IF file.max = <<>> THEN c.max ELSE file.max[1]]

\* configPath(), then cfg := defaultConfig() in ensureConfigFile
ConfigPath ==
    /\ cpc = "path"
    /\ \/ LoadFails("home")                              \* os.UserHomeDir
       \/ /\ cfg' = defaultConfig
          /\ cpc' = "stat"
          /\ UNCHANGED loadErr
    /\ UNCHANGED cfgFile
    /\ cfFrame

\* os.Stat(path)
StatConfig ==
    /\ cpc = "stat"
    /\ \/ LoadFails("stat")                              \* another stat error
       \/ /\ cpc' = IF cfgFile.exists THEN "read" ELSE "create"
          /\ UNCHANGED <<cfg, loadErr>>
    /\ UNCHANGED cfgFile
    /\ cfFrame

\* the file does not exist: MkdirAll, yaml.Marshal, os.WriteFile, return cfg
CreateConfig ==
    /\ cpc = "create"
    /\ \/ /\ LoadFails("create")                         \* MkdirAll / Marshal
          /\ UNCHANGED cfgFile
       \/ /\ LoadFails("create")                         \* WriteFile failed
          /\ cfgFile' = MalformedConfigFile              \* after a partial write
       \/ /\ cfgFile' = Marshal(cfg)
          /\ cpc' = "validate"
          /\ UNCHANGED <<cfg, loadErr>>
    /\ cfFrame

\* os.ReadFile, yaml.Unmarshal into the pre-populated cfg
ReadConfig ==
    /\ cpc = "read"
    /\ \/ LoadFails("read")                              \* os.ReadFile
       \/ /\ cfgFile.malformed
          /\ LoadFails("unmarshal")
       \/ /\ ~cfgFile.malformed
          /\ cfg' = Unmarshal(cfgFile, cfg)
          /\ cpc' = "validate"
          /\ UNCHANGED loadErr
    /\ UNCHANGED cfgFile
    /\ cfFrame

\* validate(cfg), then return cfg, nil
Validate ==
    /\ cpc = "validate"
    /\ IF IsValidLogLevel(cfg.level) /\ IsValidLogFormat(cfg.format)
         THEN /\ loadErr' = "nil"
              /\ cpc' = "returned"
              /\ UNCHANGED cfg
         ELSE LoadFails("invalid")
    /\ UNCHANGED cfgFile
    /\ cfFrame

\* the program is run again: Load is called with the file the last run left
LoadAgain ==
    /\ cpc = "returned"
    /\ loads < MaxLoads
    /\ loads' = loads + 1
    /\ cfg' = ZeroConfig
    /\ loadErr' = "none"
    /\ cpc' = "path"
    /\ UNCHANGED <<cfgFile, dlVars, exVars, rsVars, inVars, xpVars>>

NextConfig ==
    \/ ConfigPath
    \/ StatConfig
    \/ CreateConfig
    \/ ReadConfig
    \/ Validate
    \/ LoadAgain

SpecConfig == InitConfig /\ [][NextConfig]_vars

\* ------------------------------------------------- RunInstall, run twice
\* RunInstall at the granularity of its calls, for a manifest without custom
\* repositories, a configured limit of at least 1 and a context that is not
\* cancelled.  The registry answers every lookup of a name with the same
\* response in both runs.
NonPlatform == {n \in require : ~isPlatformRequirement(n)}

\* the requirements resolvePackage looks up at packagist.org
LookedUp == {n \in NonPlatform : ~isAssetPackage(n)}

InitInstall ==
    /\ StoreIdle
    /\ ConfigIdle
    /\ RaceIdle
    /\ require \in {r \in SUBSET NameSet : Cardinality(r) <= MaxReqs}
    /\ repositories = <<>>
    /\ todo = {}
    /\ cur = NoName
    /\ ri = 0
    /\ tried = <<>>
    /\ lastQuery = NoQuery
    /\ rerr = "none"
    /\ packages = <<>>
    /\ errors = <<>>
    /\ rpc = "idle"
    /\ rsErr = "none"
    /\ caller = "idle"
    /\ \E f \in [LookedUp -> ResponsesFor] :
          registry = [n \in NameSet |-> IF n \in LookedUp THEN f[n]
                                                          ELSE NoResponse]
    /\ run = 1
    /\ ipc = "resolve"
    /\ store = {}
    /\ tree = NoTree
    /\ tree1 = NoTree
    /\ ok1 = FALSE
    /\ lookups = 0
    /\ fetches = 0
    /\ downloadErr = "none"

inFrame == UNCHANGED <<dlVars, exVars, cfVars, xpVars, require, repositories, todo,
                       cur, ri, tried, lastQuery, rerr, rpc, rsErr, caller,
                       registry, run, tree1, ok1>>

\* every ordering of a finite set as a sequence
SeqsOf(S) ==
    {q \in [1..Cardinality(S) -> S] : \A i, j \in 1..Cardinality(S) :
                                         q[i] = q[j] => i = j}

\* cache key of a package: cacheDir/Name/Version/Name.zip
Key(pkg) == <<pkg.Name, pkg.Version>>

\* ResolvePackagesWithRepos(composer.Require, composer.Repositories): with
\* no repository configured an asset requirement fails without a lookup and
\* every other non-platform requirement is looked up at packagist.org once
InstallResolve ==
    /\ ipc = "resolve"
    /\ \E got \in [LookedUp -> UNION {queryComposerRepository(registry[n]) :
                                        n \in LookedUp}] :
          LET res == [n \in NonPlatform |->
                        IF n \in LookedUp THEN got[n]
                        ELSE QueryResult("asset", 0, <<>>)]
          IN
          /\ \A n \in LookedUp :
                got[n] \in queryComposerRepository(registry[n])
          /\ packages' \in SeqsOf({[Name |-> n, Version |-> res[n].Version,
                                     URL |-> res[n].URL] :
                                    n \in {m \in NonPlatform : res[m].err = "nil"}})
          /\ errors' \in SeqsOf({n \in NonPlatform : res[n].err # "nil"})
    /\ lookups' = Cardinality(LookedUp)
    /\ ipc' = "download"                      \* the error is always nil
    /\ UNCHANGED <<store, tree, fetches, downloadErr>>
    /\ inFrame

\* InstallDownload going on to ExtractPackages whatever was returned
InstallDownloadIgnoresError ==
    /\ ipc = "download"
    /\ LET missing == {Key(packages[i]) : i \in 1..Len(packages)} \ store
       IN  \E asked \in SUBSET missing : \E got \in SUBSET asked :
              /\ store' = store \cup got
              /\ fetches' = Cardinality(asked)
              /\ downloadErr' = IF got = missing THEN "nil" ELSE "error"
              /\ ipc' = "extract"
    /\ UNCHANGED <<packages, errors, tree, lookups>>
    /\ inFrame

\* DownloadPackages(ctx, packages, cacheDir, logger, cfg): a cached package
\* sends no request; nil is returned when every package ends up cached.
\* if err != nil { return fmt.Errorf("download packages: %w", err) }
InstallDownload ==
    /\ ipc = "download"
    /\ LET missing == {Key(packages[i]) : i \in 1..Len(packages)} \ store
       IN  \E asked \in SUBSET missing : \E got \in SUBSET asked :
              /\ store' = store \cup got
              /\ fetches' = Cardinality(asked)
              /\ downloadErr' = IF got = missing THEN "nil" ELSE "error"
              /\ ipc' = IF got = missing THEN "extract" ELSE "failed"
    /\ UNCHANGED <<packages, errors, tree, lookups>>
    /\ inFrame

\* ExtractPackages(packages, cacheDir, vendorDir, logger): every package is
\* attempted; a package that fails keeps its directory or loses it
InstallExtract ==
    /\ ipc = "extract"
    /\ \E done \in SUBSET {packages[i].Name : i \in 1..Len(packages)} :
       \E lost \in SUBSET ({packages[i].Name : i \in 1..Len(packages)} \ done) :
          /\ tree' = [n \in NameSet |->
                        IF n \in lost THEN 0
                        ELSE IF n \in done
                          THEN packages[CHOOSE i \in 1..Len(packages) :
                                           packages[i].Name = n].Version
                          ELSE tree[n]]
          /\ ipc' = IF done = {packages[i].Name : i \in 1..Len(packages)}
                      THEN "autoload" ELSE "failed"
    /\ UNCHANGED <<packages, errors, store, lookups, fetches, downloadErr>>
    /\ inFrame

\* GenerateAutoloader, then return nil
InstallAutoload ==
    /\ ipc = "autoload"
    /\ ipc' \in {"done", "failed"}             \* os.WriteFile may fail
    /\ UNCHANGED <<packages, errors, store, tree, lookups, fetches,
                   downloadErr>>
    /\ inFrame

\* the command is run a second time: same manifest, same registry, the
\* cache and the target tree as the first run left them
InstallAgain ==
    /\ ipc \in {"done", "failed"}
    /\ run = 1
    /\ run' = 2
    /\ ok1' = (ipc = "done")
    /\ tree1' = tree
    /\ packages' = <<>>
    /\ errors' = <<>>
    /\ lookups' = 0
    /\ fetches' = 0
    /\ downloadErr' = "none"
    /\ ipc' = "resolve"
    /\ UNCHANGED <<dlVars, exVars, cfVars, xpVars, require, repositories, todo,
                   cur, ri, tried, lastQuery, rerr, rpc, rsErr, caller, registry,
                   store, tree>>

NextInstall ==
    \/ InstallResolve
    \/ InstallDownload
    \/ InstallExtract
    \/ InstallAutoload
    \/ InstallAgain

SpecInstall == InitInstall /\ [][NextInstall]_vars

\* ------------------------------------- two processes on one cache key
\* Two runs of the program, each calling DownloadPackages with the one artifact
\* (name, version), limit >= 1 and a context nobody cancels, so that what
\* DownloadPackages returns in a process is what its downloadPackage returned.
\* The two share nothing but the files under the cache root.
ConsistentEntry(f, d) ==
    /\ f # Absent
    /\ f.full
    /\ f.synced
    /\ hasDigest(d) => f.hash = expectedHash(d)

InitRace ==
    /\ StoreIdle
    /\ ResolveIdle
    /\ ConfigIdle
    /\ InstallIdle
    /\ procDist \in Dists
    /\ procCache \in {Absent} \cup {f \in Files : ConsistentEntry(f, procDist)}
    /\ procTmp = [i \in Procs |-> Absent]
    /\ procPC = [i \in Procs |-> "stat"]
    /\ procRead = [i \in Procs |-> ""]
    /\ procErr = [i \in Procs |-> "none"]
    /\ procSeen = [i \in Procs |-> Absent]

\* downloadPackage returns e in process i, and with it DownloadPackages; c is
\* the file at the cache path at that moment
ProcReturn(i, e, c) ==
    /\ procPC' = [procPC EXCEPT ![i] = "returned"]
    /\ procErr' = [procErr EXCEPT ![i] = e]
    /\ procSeen' = [procSeen EXCEPT ![i] = c]

\* os.MkdirAll of the cache directory and os.Stat(cachePath)
ProcStat(i) ==
    /\ procPC[i] = "stat"
    /\ \/ /\ procCache = Absent
          /\ ProcReturn(i, "error", procCache)           \* MkdirAll failed
       \/ /\ procCache # Absent
          /\ ProcReturn(i, "nil", procCache)             \* already cached
       \/ /\ procCache = Absent
          /\ procPC' = [procPC EXCEPT ![i] = "request"]
          /\ UNCHANGED <<procErr, procSeen>>
    /\ UNCHANGED <<procCache, procTmp, procRead>>
    /\ UNCHANGED <<dlVars, exVars, rsVars, cfVars, inVars, procDist>>

\* NewRequestWithContext + client.Do + status check
ProcRequest(i) ==
    /\ procPC[i] = "request"
    /\ \/ ProcReturn(i, "error", procCache)              \* transport / non-200
       \/ /\ procPC' = [procPC EXCEPT ![i] = "create"]
          /\ UNCHANGED <<procErr, procSeen>>
    /\ UNCHANGED <<procCache, procTmp, procRead>>
    /\ UNCHANGED <<dlVars, exVars, rsVars, cfVars, inVars, procDist>>

\* os.CreateTemp in the cache directory, then os.Chmod
ProcCreateTemp(i) ==
    /\ procPC[i] = "create"
    /\ \/ /\ ProcReturn(i, "error", procCache)           \* CreateTemp or Chmod
          /\ UNCHANGED procTmp                           \* failed
       \/ /\ \E h \in Hashes :
                procTmp' = [procTmp EXCEPT ![i] = File(FALSE, FALSE, h)]
          /\ procPC' = [procPC EXCEPT ![i] = "copy"]
          /\ UNCHANGED <<procErr, procSeen>>
    /\ UNCHANGED <<procCache, procRead>>
    /\ UNCHANGED <<dlVars, exVars, rsVars, cfVars, inVars, procDist>>

\* io.Copy(tempFile, resp.Body)
ProcCopyBody(i) ==
    /\ procPC[i] = "copy"
    /\ \/ /\ procTmp' = [procTmp EXCEPT ![i] = Absent]   \* failed: deferred
          /\ ProcReturn(i, "error", procCache)          \* os.Remove(tempPath)
          /\ UNCHANGED <<procCache, procRead>>
       \/ /\ procTmp' = [procTmp EXCEPT ![i] = [@ EXCEPT !.full = TRUE]]
          /\ procPC' = [procPC EXCEPT ![i] = "sync"]
          /\ UNCHANGED <<procCache, procRead, procErr, procSeen>>
    /\ UNCHANGED <<dlVars, exVars, rsVars, cfVars, inVars, procDist>>

\* tempFile.Sync(), then tempFile.Close() and tempFile = nil
ProcSyncClose(i) ==
    /\ procPC[i] = "sync"
    /\ \/ /\ procTmp' = [procTmp EXCEPT ![i] = Absent]   \* failed: deferred
          /\ ProcReturn(i, "error", procCache)          \* os.Remove(tempPath)
          /\ UNCHANGED <<procCache, procRead>>
       \/ /\ procTmp' = [procTmp EXCEPT ![i] = [@ EXCEPT !.synced = TRUE]]
          /\ procPC' = [procPC EXCEPT ![i] = "rename"]
          /\ UNCHANGED <<procCache, procRead, procErr, procSeen>>
    /\ UNCHANGED <<dlVars, exVars, rsVars, cfVars, inVars, procDist>>

\* os.Rename(tempPath, cachePath): replaces whatever file is at the cache path
ProcRename(i) ==
    /\ procPC[i] = "rename"
    /\ \/ /\ procTmp' = [procTmp EXCEPT ![i] = Absent]   \* rename failed:
          /\ ProcReturn(i, "error", procCache)          \* os.Remove(tempPath)
          /\ UNCHANGED <<procCache, procRead>>
       \/ /\ procCache' = procTmp[i]
          /\ procTmp' = [procTmp EXCEPT ![i] = Absent]
          /\ UNCHANGED procRead
          /\ IF hasDigest(procDist)
               THEN /\ procPC' = [procPC EXCEPT ![i] = "verify"]
                    /\ UNCHANGED <<procErr, procSeen>>
               ELSE ProcReturn(i, "nil", procTmp[i])
    /\ UNCHANGED <<dlVars, exVars, rsVars, cfVars, inVars, procDist>>

\* os.Open(cachePath) and io.Copy(hasher, file): the hasher reads the file that
\* was at the cache path when it was opened
ProcOpenHash(i) ==
    /\ procPC[i] = "verify"
    /\ \/ /\ ProcReturn(i, "error", procCache)           \* os.Open / io.Copy
          /\ UNCHANGED procRead                          \* failed
       \/ /\ procCache # Absent
          /\ procRead' = [procRead EXCEPT ![i] = procCache.hash]
          /\ procPC' = [procPC EXCEPT ![i] = "compare"]
          /\ UNCHANGED <<procErr, procSeen>>
    /\ UNCHANGED <<procCache, procTmp>>
    /\ UNCHANGED <<dlVars, exVars, rsVars, cfVars, inVars, procDist>>

\* actualHash != expectedHash: os.Remove(cachePath) removes the file that is at
\* the cache path now
ProcCompare(i) ==
    /\ procPC[i] = "compare"
    /\ IF procRead[i] # expectedHash(procDist)
         THEN /\ procCache' = Absent
              /\ ProcReturn(i, "error", Absent)
         ELSE /\ UNCHANGED procCache
              /\ ProcReturn(i, "nil", procCache)
    /\ UNCHANGED <<procTmp, procRead>>
    /\ UNCHANGED <<dlVars, exVars, rsVars, cfVars, inVars, procDist>>

NextRace ==
    \E i \in Procs :
        \/ ProcStat(i)
        \/ ProcRequest(i)
        \/ ProcCreateTemp(i)
        \/ ProcCopyBody(i)
        \/ ProcSyncClose(i)
        \/ ProcRename(i)
        \/ ProcOpenHash(i)
        \/ ProcCompare(i)

SpecRace == InitRace /\ [][NextRace]_vars

\* the files extractPackage is to produce from an archive
ExpectedFiles(files) ==
    LET pre == computeCommonPrefix(files)
    IN  { [path |-> RelToTemp(JoinPath(TempDirPath, relativePath(files[i], pre))),
           full |-> TRUE] :
          i \in {j \in 1..Len(files) : relativePath(files[j], pre) # <<>>} }

\* ================================================================ claims
Range(f) == {f[i] : i \in DOMAIN f}

\* tasks that hold an admission slot: they acquired it and have not yet
\* left the goroutine
InFlight == {p \in Packages : tpc[p] \notin {"start", "done"}}

\* the complete directory extractPackage is to install for artifact p
NewDir(p) == [exists |-> TRUE, files |-> ExpectedFiles(zip[p])]

\* errors extractPackage returns before it starts the swap
PreSwapErrs == {"mktemp", "open", "entry", "illegal", "cancel", "stat", "backup"}

\* C1 (as claimed): while ExtractPackages runs, a package directory that
\* existed before the call is at every moment either the complete previous
\* directory or the complete new one, never absent or partial
C1_ReaderSeesOldOrNew ==
    \A p \in Packages :
        vendor0[p].exists => vendor[p] = vendor0[p] \/ vendor[p] = NewDir(p)

\* C2: the number of tasks holding an admission slot never exceeds
\* cfg.Pkgmgr.MaxConcurrentDownloads
C2_AtMostLimitInFlight == Cardinality(InFlight) <= limit

\* C2 witness: every slot is taken and another task is waiting for one
C2_SlotsFullWhileWaiting ==
    /\ limit >= 1
    /\ Cardinality(InFlight) = limit
    /\ \E p \in Packages : tpc[p] = "start"

\* C3: with the caller's context not cancelled, once a fetch has failed on
\* its own DownloadPackages returns an error naming an artifact whose own
\* fetch failed, with the shared context cancelled
C3_FirstErrorReturned ==
    (/\ mainPC = "returned"
     /\ ~parentCancelled
     /\ \E p \in Packages : terr[p] = "own")
    => /\ result # NoErr
       /\ result.cause = "own"
       /\ terr[result.name] = "own"
       /\ ctxDone

\* C3 witness: the call returned the error of a failed fetch while another
\* artifact failed only because of the cancellation that followed
C3_ReturnedWithCancelledSibling ==
    /\ mainPC = "returned"
    /\ ~parentCancelled
    /\ result.cause = "own"
    /\ \E q \in Packages : q # result.name /\ terr[q] = "cancel"

\* C4 (as claimed): a batch cut short by the caller's cancellation, with an
\* artifact still missing from the cache, never returns nil
C4_CancelledBatchReturnsError ==
    (/\ mainPC = "returned"
     /\ parentCancelled
     /\ \E p \in Packages : ~cache[p].exists)
    => result # NoErr

\* C5 (as claimed): when DownloadPackages returns nil every artifact of the
\* batch has a file at its cache path
C5_NilMeansAllCached ==
    (mainPC = "returned" /\ result = NoErr)
    => \A p \in Packages : cache[p].exists

C7_NoWriteOutsideTemp ==
    /\ outside = {}
    /\ \A p \in Packages :
          lastErr[p] = "nil" =>
             \A i \in 1..Len(zip[p]) :
                LET rel == relativePath(zip[p][i], computeCommonPrefix(zip[p]))
                IN  rel # <<>> => ReallyInside(JoinPath(TempDirPath, rel))
    /\ \A p \in Packages :
          lastErr[p] = "illegal" => vendor[p] = vendor0[p]
    /\ (epc = "entries" /\ idx <= Len(zip[ei])) =>
          LET rel == relativePath(zip[ei][idx], rootDir)
              r == extractZipFile(zip[ei][idx], TempDirPath, rootDir)
          IN  /\ r.do = "write" => ReallyInside(r.destPath)
              /\ (rel # <<>> /\ ~ReallyInside(JoinPath(TempDirPath, rel)))
                    => r.do = "illegal"

\* C7 witness: an entry was rejected by the traversal guard
C7_EntryRejected ==
    \E p \in Packages :
        /\ lastErr[p] = "illegal"
        /\ \E i \in 1..Len(zip[p]) :
              LET rel == relativePath(zip[p][i], computeCommonPrefix(zip[p]))
              IN  rel # <<>> /\ ~ReallyInside(JoinPath(TempDirPath, rel))

\* C8: when extractPackage fails before the swap, the temporary directory
\* is gone on return and targetRoot/name is what it was before the call
C8_FailureBeforeSwapLeavesTarget ==
    \A p \in Packages :
        lastErr[p] \in PreSwapErrs
        => /\ vendor[p] = vendor0[p]
           /\ (epc = "loop" /\ ei = p + 1) => ~tempDir.exists

\* C8 witness: an entry failed after the temporary directory was filled,
\* for a package that was installed before
C8_EntryFailedOverExisting ==
    \E p \in Packages :
        /\ lastErr[p] \in {"entry", "illegal", "cancel"}
        /\ vendor0[p].exists
        /\ epc = "loop"
        /\ ei = p + 1

\* C9 (as claimed): for an artifact with a digest that was fetched, on
\* return a mismatching file is deleted with an error, a matching file is
\* kept with nil
C9_DigestDecidesEntry ==
    \A p \in Packages :
        (/\ tpc[p] \in {"ret", "done"}
         /\ fetched[p] # ""
         /\ hasDigest(dist[p]))
        => IF fetched[p] # expectedHash(dist[p])
             THEN ~cache[p].exists /\ terr[p] # "nil"
             ELSE cache[p].exists /\ terr[p] = "nil"

\* C10: a file at a final cache path always holds the complete, synced
\* response body; partial content exists only in temporary files
C10_CacheEntryComplete ==
    \A p \in Packages : cache[p].exists => cache[p].full /\ cache[p].synced

\* C10 witness: one artifact was renamed into the cache by this run while
\* another task holds a partially written temporary file
C10_CachedNextToPartialTemp ==
    \E p, q \in Packages :
        /\ fetched[p] # ""
        /\ cache[p].exists
        /\ tmp[q].exists
        /\ ~tmp[q].full

\* the task's downloadPackage call has returned and the task has not yet
\* run its error select
Returned(p) == tpc[p] = "ret"

\* steps of downloadPackage between the creation of the temporary file and
\* the successful rename
TempSteps == {"chmod", "copy", "sync", "rename"}

\* C11: for an artifact with a file at its cache path when downloadPackage
\* starts, downloadPackage returns nil from the cache-hit test: it never
\* reaches the request, no temporary file is created, nothing is renamed or
\* verified and the entry stays exactly what it was
C11_CacheHitReturnsUntouched ==
    \A p \in Packages :
        cache0[p].exists
        => /\ cache[p] = cache0[p]
           /\ fetched[p] = ""
           /\ tmp[p] = Absent
           /\ tpc[p] \in {"start", "stat", "ret", "done"}
           /\ Returned(p) => tfrom[p] = "stat"
           /\ tpc[p] \in {"ret", "done"} /\ terr[p] # "none" => terr[p] = "nil"

\* C11 witness: a cached entry whose sha1 differs from the artifact's digest
\* was accepted with nil
C11_HitWithOtherDigest ==
    \E p \in Packages :
        /\ cache0[p].exists
        /\ hasDigest(dist[p])
        /\ cache0[p].hash # expectedHash(dist[p])
        /\ tpc[p] = "done"
        /\ terr[p] = "nil"

\* C12: for an artifact without a cache entry before the call whose fetch
\* failed (request, status, temporary file, copy, sync, close, rename,
\* digest mismatch or cancellation), no file is at its cache path when
\* downloadPackage has returned.  A failure to re-open or re-read the
\* renamed file is not among the listed failures.
C12_FailedFetchLeavesNoEntry ==
    \A p \in Packages :
        (/\ ~cache0[p].exists
         /\ Returned(p)
         /\ terr[p] # "nil"
         /\ tfrom[p] # "reopen")
        => ~cache[p].exists

\* C12 witness: a fetched file was renamed into the cache, failed the digest
\* comparison and is gone
C12_MismatchRemoved ==
    \E p \in Packages :
        /\ ~cache0[p].exists
        /\ fetched[p] # ""
        /\ tpc[p] = "ret"
        /\ tfrom[p] = "verify"
        /\ terr[p] = "own"
        /\ ~cache[p].exists

\* C13: when downloadPackage returns an error from a step after the
\* temporary file was created and before the rename succeeded (chmod, copy,
\* sync, close, rename, cancellation during the copy), the temporary file
\* is gone and nothing was renamed onto the cache path
C13_TempRemovedOnError ==
    \A p \in Packages :
        (Returned(p) /\ terr[p] # "nil" /\ tfrom[p] \in TempSteps)
        => /\ tmp[p] = Absent
           /\ fetched[p] = ""
           /\ cache[p] = cache0[p]

\* C13 witness: the body copy was cut short by the cancellation and
\* downloadPackage has returned
C13_CancelledDuringCopy ==
    \E p \in Packages :
        /\ tfrom[p] = "copy"
        /\ terr[p] = "cancel"
        /\ tpc[p] = "ret"

\* number of positions of seq that hold x
Count(seq, x) == Cardinality({i \in 1..Len(seq) : seq[i] = x})

\* the Name of every entry of the packages slice
PackageNames == [i \in 1..Len(packages) |-> packages[i].Name]

\* resolvePackage is running for cur
Resolving(n) == n = cur /\ rpc = "chain"

\* a composer repository at the asset mirror
IsMirror(repo) == repo.Type = "composer" /\ Contains(repo.URL, AssetMirror)

\* a composer repository that is not the asset mirror
IsCustom(repo) == repo.Type = "composer" /\ ~Contains(repo.URL, AssetMirror)

\* the URL of every entry of a repository list
URLsOf(repos) == [i \in 1..Len(repos) |-> repos[i].URL]

\* C14: ResolvePackagesWithRepos never returns an error and its callers never
\* fail on its return; a platform requirement contributes nothing, every
\* other requirement contributes exactly one entry, a Package or a recorded
\* failure, once resolvePackage has returned for it, whatever happened to
\* the other requirements
C14_EveryRequirementOneResult ==
    /\ rsErr \in {"none", "nil"}
    /\ caller # "failed"
    /\ rpc = "returned" => rsErr = "nil" /\ todo = {}
    /\ \A n \in require :
          LET k == Count(PackageNames, n) + Count(errors, n)
          IN  IF isPlatformRequirement(n) \/ n \in todo \/ Resolving(n)
                THEN k = 0
                ELSE k = 1

\* C14 witness: the call returned with one requirement resolved and another
\* one failed, and the caller went on to the download
C14_ReturnedWithMissAndHit ==
    /\ rpc = "returned"
    /\ caller = "download"
    /\ Len(packages) >= 1
    /\ Len(errors) >= 1

\* C15: for an asset requirement only the composer repositories at the
\* asset mirror are queried, in listed order and each only after the ones
\* before it failed, never another repository or packagist.org; when none
\* is configured or all fail the asset-not-found error is returned
C15_AssetOnlyFromMirror ==
    (cur # NoName /\ isAssetPackage(cur))
    => LET mirrors == URLsOf(SelectSeq(repositories, IsMirror))
           n == Len(tried)
       IN  /\ n <= Len(mirrors)
           /\ \A i \in 1..n :
                 /\ tried[i].url = mirrors[i]
                 /\ Contains(tried[i].url, AssetMirror)
                 /\ tried[i].url # PackagistURL
           /\ \A i \in 1..(n - 1) : ~tried[i].ok
           /\ rpc # "chain" =>
                 IF n >= 1 /\ tried[n].ok
                   THEN rerr = "nil" /\ Count(PackageNames, cur) = 1
                   ELSE /\ n = Len(mirrors)
                        /\ rerr = "asset"
                        /\ Count(errors, cur) = 1

\* C15 witness: an asset requirement failed after the mirror failed, with
\* another composer repository configured that was not asked
C15_MirrorFailedCustomNotAsked ==
    /\ cur # NoName
    /\ isAssetPackage(cur)
    /\ rpc = "loop"
    /\ rerr = "asset"
    /\ Len(tried) >= 1
    /\ \E i \in 1..Len(repositories) : IsCustom(repositories[i])

\* C16: for a non-asset requirement the composer repositories other than
\* the asset mirror are queried in listed order and packagist.org last; a
\* failed source is followed by the next one, the first success ends the
\* chain, and the requirement fails only after packagist.org failed
C16_ChainInOrder ==
    (cur # NoName /\ ~isAssetPackage(cur))
    => LET chain == URLsOf(SelectSeq(repositories, IsCustom)) \o <<PackagistURL>>
           n == Len(tried)
       IN  /\ n <= Len(chain)
           /\ \A i \in 1..n : tried[i].url = chain[i]
           /\ \A i \in 1..(n - 1) : ~tried[i].ok
           /\ rpc # "chain" =>
                 /\ n >= 1
                 /\ IF tried[n].ok
                      THEN rerr = "nil" /\ Count(PackageNames, cur) = 1
                      ELSE /\ n = Len(chain)
                           /\ rerr \in {"lookup", "status", "decode", "nohttps"}
                           /\ Count(errors, cur) = 1

\* C16 witness: the first custom repository failed, the second one
\* answered, and packagist.org was not asked
C16_SecondSourceAnswered ==
    /\ cur # NoName
    /\ ~isAssetPackage(cur)
    /\ rpc = "loop"
    /\ Len(tried) = 2
    /\ ~tried[1].ok
    /\ tried[2].ok
    /\ tried[2].url # PackagistURL

\* C17: every Package of the result has a non-empty dist URL that starts
\* with https://; a lookup whose document has such a version returns one of
\* them, a lookup whose document has none fails
C17_OnlyHttpsDist ==
    /\ \A i \in 1..Len(packages) :
          /\ packages[i].URL # <<>>
          /\ HasPrefix(packages[i].URL, HttpsPrefix)
    /\ lastQuery.resp.status = "ok" =>
          LET vs == lastQuery.resp.versions
              res == lastQuery.res
          IN  IF \E v \in 1..Len(vs) : vs[v] # <<>> /\ HasPrefix(vs[v], HttpsPrefix)
                THEN /\ res.err = "nil"
                     /\ res.URL = vs[res.Version]
                     /\ HasPrefix(res.URL, HttpsPrefix)
                ELSE res.err = "nohttps"

\* C17 witness: a document whose first version has an http dist and whose
\* second has an https dist gave the second version
C17_HttpVersionPassedOver ==
    /\ lastQuery.resp.status = "ok"
    /\ Len(lastQuery.resp.versions) = 2
    /\ lastQuery.resp.versions[1] = <<"http", "://", "h">>
    /\ lastQuery.res.err = "nil"
    /\ lastQuery.res.Version = 2
    /\ Len(packages) >= 1

\* C18 (as claimed): a successful lookup returns the first version, in the
\* document's encoding order, whose dist URL starts with https://
C18_FirstQualifyingVersion ==
    lastQuery.res.err = "nil"
    => LET vs == lastQuery.resp.versions
       IN  \A v \in 1..Len(vs) :
              (vs[v] # <<>> /\ HasPrefix(vs[v], HttpsPrefix))
              => lastQuery.res.Version <= v

\* C20 (as claimed): a Config that Load returns with a nil error has
\* Pkgmgr.MaxConcurrentDownloads within [1, 50]
C20_LoadedLimitInRange ==
    (cpc = "returned" /\ loadErr = "nil") => ValidMaxConcurrentDownloads(cfg.max)

\* C19 (as claimed): when RunInstall has returned nil twice for the same
\* manifest and registry, the second run left the target tree the first run
\* left and sent no network request
C19_SecondRunIdentical ==
    (run = 2 /\ ok1 /\ ipc = "done")
    => /\ tree = tree1
       /\ lookups = 0
       /\ fetches = 0

\* extractPackage has started work on artifact q of the batch
Started(q) == ei > q \/ (ei = q /\ epc \notin {"loop", "returned"})

\* C21 (as claimed): once extractPackage has failed for one artifact, no
\* later artifact of the batch is extracted or swapped into the target tree
C21_FailureStopsBatch ==
    \A p \in 1..batch :
        lastErr[p] \notin {"none", "nil"}
        => \A q \in (p + 1)..batch :
              /\ ~Started(q)
              /\ lastErr[q] = "none"
              /\ vendor[q] = vendor0[q]

\* the target tree as it was when the current run of RunInstall started
TreeAtStart == IF run = 1 THEN NoTree ELSE tree1

\* C22: ExtractPackages and GenerateAutoloader run only after
\* DownloadPackages has returned nil, and a run whose DownloadPackages
\* returned an error stops there with every package directory of the
\* target tree as it was when the run started
C22_ExtractOnlyAfterDownload ==
    /\ ipc \in {"extract", "autoload", "done"} => downloadErr = "nil"
    /\ downloadErr = "error" => ipc = "failed" /\ tree = TreeAtStart
    /\ downloadErr = "none" => tree = TreeAtStart

\* C22 witness: the second run's download failed over a tree the first run
\* had populated
C22_DownloadFailedOverTree ==
    /\ run = 2
    /\ downloadErr = "error"
    /\ ipc = "failed"
    /\ tree1 # NoTree

\* extractPackage has just returned for artifact p
JustReturned(p) == epc = "loop" /\ ei = p + 1

NamedPlatform(n) ==
    \/ n = <<"php">>
    \/ Len(n) = 2 /\ n[1] = "ext-" /\ n[2] \in WordTokens

\* C24: resolvePackage is never called for a requirement named php or
\* ext-<word>, so no repository is queried for it, and it appears neither
\* among the packages nor among the failures; a manifest with only such
\* requirements sends no query at all and resolves to no package and no
\* failure
C24_PlatformSkipped ==
    /\ \A n \in require :
          NamedPlatform(n)
          => /\ cur # n
             /\ Count(PackageNames, n) = 0
             /\ Count(errors, n) = 0
    /\ (\A n \in require : NamedPlatform(n))
          => /\ tried = <<>>
             /\ lastQuery = NoQuery
             /\ packages = <<>>
             /\ errors = <<>>
             /\ rsErr \in {"none", "nil"}

\* C24 witness: a manifest requiring php and an extension, with
\* repositories configured, has been resolved
C24_OnlyPlatformResolved ==
    /\ Cardinality(require) = 2
    /\ \A n \in require : NamedPlatform(n)
    /\ repositories # <<>>
    /\ rpc = "returned"
    /\ rsErr = "nil"

\* C25: when the repository loop of resolvePackage stands at an entry whose
\* type is not composer (git or any other), the step sends no query: the
\* list of queried sources and the last response stay as they are, and the
\* loop moves on to the next entry
C25_NonComposerNeverQueried ==
    [][(rpc = "chain" /\ ri <= Len(repositories)
          /\ repositories[ri].Type # "composer")
       => /\ tried' = tried
          /\ lastQuery' = lastQuery
          /\ packages' = packages
          /\ errors' = errors
          /\ ri' = ri + 1
          /\ rpc' = "chain"]_vars

\* C25 witness: a git entry stood before a composer repository in the list,
\* and the only source queried for the requirement was that later one
C25_GitPassedOver ==
    /\ cur # NoName
    /\ rpc = "loop"
    /\ Len(repositories) = 2
    /\ repositories[1].Type = "git"
    /\ repositories[2].Type = "composer"
    /\ repositories[1].URL # repositories[2].URL
    /\ tried = <<[url |-> repositories[2].URL, ok |-> TRUE]>>

\* C26: when extractPackage has run for an artifact whose cached archive is
\* absent, it returned an error for it, the artifact is among the failed
\* ones, its directory in the target tree is as it was, and ExtractPackages
\* returns an error
C26_AbsentArchiveFails ==
    \A p \in 1..batch :
        (cache[p] = Absent /\ lastErr[p] # "none")
        => /\ lastErr[p] \in {"mktemp", "open"}
           /\ Count(failedPackages, p) = 1
           /\ vendor[p] = vendor0[p]
           /\ JustReturned(p) => ~tempDir.exists
           /\ epc = "returned" => exResult \in {"failed", "cancelled"}

\* C26 witness: the archive of an installed package was missing, a later
\* artifact of the batch was extracted, and ExtractPackages returned the
\* combined error
C26_AbsentAmongCached ==
    /\ epc = "returned"
    /\ exResult = "failed"
    /\ \E p, q \in 1..batch :
          /\ cache[p] = Absent
          /\ lastErr[p] = "open"
          /\ vendor0[p].exists
          /\ lastErr[q] = "nil"

C28_SlotsReleased ==
    /\ sem = Cardinality(InFlight)
    /\ (\A p \in Packages : tpc[p] = "done") => sem = 0

\* C28 witness: every task has terminated, one after a failed fetch and
\* another on the cancellation without ever holding a slot
C28_AllDoneAfterFailureAndAbort ==
    /\ \A p \in Packages : tpc[p] = "done"
    /\ \E p, q \in Packages :
          /\ terr[p] = "own"
          /\ terr[q] = "none"
          /\ cache0[q] = Absent

\* C29: with a limit of at least 1 and every fetch step terminating,
\* DownloadPackages eventually returns and every task goroutine eventually
\* terminates, whatever the outcomes of the fetches and also after an early
\* return with the first error
C29_EverythingTerminates ==
    <>(mainPC = "returned" /\ \A p \in Packages : tpc[p] = "done")

\* C29 witness: DownloadPackages has returned the error of one fetch, and a
\* task that was cancelled by that return alone has terminated as well
C29_TerminatedAfterEarlyReturn ==
    /\ mainPC = "returned"
    /\ result # NoErr
    /\ ~parentCancelled
    /\ \A p \in Packages : tpc[p] = "done"
    /\ \E q \in Packages : terr[q] = "cancel"

\* C30 (as claimed): for an artifact with a digest, a file this call put at
\* the final cache path has, in every state, the sha1 the digest names
C30_NoMismatchAtCachePath ==
    \A p \in Packages :
        (hasDigest(dist[p]) /\ fetched[p] # "" /\ cache[p] # Absent)
        => cache[p].hash = expectedHash(dist[p])

\* the first path component of an entry name
FirstComponent(name) == Split(TrimSuffix(name))[1]

\* C31 (as claimed): the prefix computeCommonPrefix returned for the open
\* archive is empty, or ends in "/" and every non-empty entry name equals it
\* or starts with it; it is empty when two entries differ in their first
\* component
C31_PrefixOfEveryEntry ==
    epc = "entries"
    => LET files == zip[ei]
           named == {i \in 1..Len(files) : files[i] # <<>>}
       IN  /\ rootDir # <<>> =>
                /\ rootDir[Len(rootDir)] = Sep
                /\ \A i \in named :
                      files[i] = rootDir \/ HasPrefix(files[i], rootDir)
           /\ (\E i, j \in named :
                  FirstComponent(files[i]) # FirstComponent(files[j]))
                => rootDir = <<>>

\* C32: two processes running DownloadPackages concurrently for the same
\* (name, version) on one cache root: whenever DownloadPackages has returned
\* nil in a process, the cache path held at that moment a complete entry
\* consistent with the digest
C32_NilMeansConsistentEntry ==
    \A i \in Procs :
        procErr[i] = "nil" => ConsistentEntry(procSeen[i], procDist)

\* C33: once DownloadPackages has returned, nil or an error, no task of that
\* call creates, renames or deletes a file under the cache root: neither the
\* cache entries nor the temp files change any more
C33_NoCacheWriteAfterReturn ==
    [][mainPC = "returned" => (cache' = cache /\ tmp' = tmp)]_vars

\* C34: called with the limit of the configuration config.Load returns on a
\* fresh installation (defaultConfig) and a batch with at least one uncached
\* artifact, DownloadPackages eventually returns
C34_DefaultConfigReturns ==
    (limit = defaultConfig.max /\ \E p \in Packages : cache[p] = Absent)
        => <>(mainPC = "returned")

\* C35: when targetRoot/name did not exist before extractPackage and
\* extractPackage returned an error, targetRoot/name does not exist afterwards
\* either, whatever an earlier interrupted run left behind
C35_FailedCallCreatesNoTarget ==
    \A p \in Packages :
        (~vendor0[p].exists /\ lastErr[p] \notin {"none", "nil"})
            => ~vendor[p].exists

====
